---- MODULE Spec2Model ----
(***************************************************************************)
(* A model of bilbopass: the compensation saga (workflow, activities and   *)
(* CompensationService), the durable bus subscriber, the static ingestor,  *)
(* the real-time poller (delay detection, vehicle positions, main loop),   *)
(* the journey planner and the query services.                             *)
(*                                                                         *)
(* Each subsystem has its own variables and its own specification          *)
(* (SpecSaga, SpecBus, SpecIngest, SpecDelay, SpecPlanner, ...); a         *)
(* specification leaves the other subsystems' variables at their initial   *)
(* values.                                                                 *)
(***************************************************************************)
EXTENDS Integers, Sequences, FiniteSets, TLC

VARIABLES
    \* ---- compensation saga ----
    wfpc,           \* the workflow's position: the activity it is executing, or "done"
    attempt,        \* attempt number of the activity being executed (1..MaximumAttempts)
    wfResult,       \* what CompensationWorkflow returned: "running", "ok", "err_find", "err_gen", "err_push"
    affiliateID,    \* workflow local affiliateID
    affiliateName,  \* workflow local affiliateName
    code,           \* workflow local code
    compensations,  \* the compensations table: a set of rows (code is UNIQUE)
    pushes,         \* every push the notification service delivered, in order
    delayMarked,    \* delay_events.is_compensated of the delay event
    nearbyStop,     \* Affiliates.FindNearby(stop_lat, stop_lon, 5)
    nearbyZero,     \* Affiliates.FindNearby(0, 0, 5)
    actNotifier,    \* CompensationActivities.Notifier # nil
    clean,          \* history: no call of this execution has failed so far
    pushFailed,     \* history: number of failed SendPushNotification attempts
    deleteCalls,    \* history: the codes DeleteCoupon was executed with, in order
    deleteErr,      \* history: the (discarded) result of the DeleteCoupon activity
    \* ---- message bus ----
    bus,            \* every message published, in order, with its state in JetStream
    \* ---- relational store (written by the static ingestor) ----
    agenciesT,      \* table agencies: a set of rows, slug UNIQUE
    stopsT,         \* table stops: a set of rows, (agency_id, stop_id) UNIQUE
    routesT,        \* table routes: a set of rows, (agency_id, route_id) UNIQUE
    tripsT,         \* table trips: rows in insertion order, (route_id, trip_id) UNIQUE
    stopTimesT,     \* table stop_times: rows in insertion order
    \* ---- static ingestor ----
    ipc,            \* ingestAgency's position: "idle" or the table stage about to run
    feed,           \* the archive being ingested (the last one ingested, when idle)
    runs,           \* ingestor runs finished
    stageErrs,      \* history: the stages of this run that returned or logged an error
    prevFeed,       \* history: the archive of the run before this one
    prevErrs,       \* history: stageErrs of the run before this one
    snap,           \* history: the store as the run before this one left it
    exitCode,       \* the exit code of the last ingestor process, NotExited before any
    \* ---- real-time poller: trip updates ----
    tuFeed,         \* the trip-updates feed the agency serves: its entities
    tuPolled,       \* what pollTripUpdates returned: "none" (not called), "ok", "err"
    published,      \* the nc.Publish calls of pollTripUpdates, in order
    \* ---- journey planner ----
    jquery,         \* the arguments FindJourneys is called with
    journeys,       \* the journeys it returned
    jerr,           \* the error it returned: "nil" or "err"; "none" before it returns
    \* ---- limit clamps of the query endpoints ----
    limEndpoint,    \* the endpoint asked: "nearby", "search", "departures", "planner"
    limArg,         \* the limit the caller gave
    limResult,      \* the limit the endpoint goes on with, NoLimit before it ran
    \* ---- StopService and DepartureService ----
    svcHasCache,    \* StopService.cache # nil
    svcCache,       \* the cache: a set of entries [key, val]
    svcReq,         \* the arguments of the last service call
    svcTrace,       \* the cache and repository calls that call made, in order
    svcResp,        \* what it returned
    \* ---- ListAgenciesHandler ----
    pgAgencies,     \* what deps.Agencies.List returns
    pgReq,          \* the request's offset and limit query parameters
    pgResp,         \* the response
    \* ---- CompensationService.IssueCompensation, called on its own ----
    issued,         \* the outcomes of its calls, what it invoked and what it returned
    \* ---- real-time poller: vehicle positions ----
    vpFeed,         \* the vehicle-positions feed the agency serves: its entities
    vpPolled,       \* what pollVehiclePositions returned: "none" (not called), "ok", "err"
    vpInserted,     \* the vehicle ids of the rows inserted into vehicle_positions, in order
    vpPublished,    \* the nc.Publish calls of pollVehiclePositions, in order
    vpLog,          \* the vehicle ids of the "insert vp" log lines, in order
    \* ---- real-time poller: main loop and pollAll ----
    mainpc,         \* main's position: "start", "polling", "select", "exited"
    cycles,         \* calls of pollAll so far
    tickPending,    \* a tick waits in ticker.C
    quitPending,    \* a signal waits in quit
    agencyIDs,      \* the agencies whose UUID main preloaded
    gpc,            \* each agency goroutine of the cycle: "none", "queued", "vp", "tu", "al", "done"
    sem,            \* len(sem): the slots of pollAll's semaphore that are taken
    fetchLog,       \* history: per agency, the feeds fetched in this cycle with their outcome
    prevFailed      \* history: the <<agency, feed>> fetches that failed in the cycle before

sagaVars == <<wfpc, attempt, wfResult, affiliateID, affiliateName, code,
              compensations, pushes, delayMarked, nearbyStop, nearbyZero,
              actNotifier, clean, pushFailed, deleteCalls, deleteErr>>

busVars == <<bus>>

storeVars == <<agenciesT, stopsT, routesT, tripsT, stopTimesT>>

ingestVars == <<ipc, feed, runs, stageErrs, prevFeed, prevErrs, snap, exitCode>>

pollerVars == <<tuFeed, tuPolled, published>>

plannerVars == <<jquery, journeys, jerr>>

limitVars == <<limEndpoint, limArg, limResult>>

serviceVars == <<svcHasCache, svcCache, svcReq, svcTrace, svcResp>>

pageVars == <<pgAgencies, pgReq, pgResp>>

issueVars == <<issued>>

vehicleVars == <<vpFeed, vpPolled, vpInserted, vpPublished, vpLog>>

loopVars ==
    <<mainpc, cycles, tickPending, quitPending, agencyIDs, gpc, sem, fetchLog,
      prevFailed>>

vars ==
    <<sagaVars, busVars, storeVars, ingestVars, pollerVars,
      plannerVars, limitVars, serviceVars, pageVars, issueVars, vehicleVars, loopVars>>

\* What each subsystem leaves alone.
notSaga ==
    <<busVars, storeVars, ingestVars, pollerVars, plannerVars,
      limitVars, serviceVars, pageVars, issueVars, vehicleVars, loopVars>>
notBus ==
    <<sagaVars, storeVars, ingestVars, pollerVars, plannerVars,
      limitVars, serviceVars, pageVars, issueVars, vehicleVars, loopVars>>
notIngest ==
    <<sagaVars, busVars, pollerVars, plannerVars, limitVars,
      serviceVars, pageVars, issueVars, vehicleVars, loopVars>>
notPoller ==
    <<sagaVars, busVars, storeVars, ingestVars, plannerVars,
      limitVars, serviceVars, pageVars, issueVars, vehicleVars, loopVars>>
notPlanner ==
    <<sagaVars, busVars, storeVars, ingestVars, pollerVars,
      limitVars, serviceVars, pageVars, issueVars, vehicleVars, loopVars>>
notLimits ==
    <<sagaVars, busVars, storeVars, ingestVars, pollerVars,
      plannerVars, serviceVars, pageVars, issueVars, vehicleVars, loopVars>>
notService ==
    <<sagaVars, busVars, storeVars, ingestVars, pollerVars,
      plannerVars, limitVars, pageVars, issueVars, vehicleVars, loopVars>>
notPage ==
    <<sagaVars, busVars, storeVars, ingestVars, pollerVars,
      plannerVars, limitVars, serviceVars, issueVars, vehicleVars, loopVars>>
\* IssueCompensation writes the saga's tables.
notIssue ==
    <<busVars, storeVars, ingestVars, pollerVars, plannerVars,
      limitVars, serviceVars, pageVars, vehicleVars, loopVars>>
notVehicles ==
    <<sagaVars, busVars, storeVars, ingestVars, pollerVars, plannerVars,
      limitVars, serviceVars, pageVars, issueVars, loopVars>>
notLoop ==
    <<sagaVars, busVars, storeVars, ingestVars, pollerVars, plannerVars,
      limitVars, serviceVars, pageVars, issueVars, vehicleVars>>

NULL == "NULL"

\* No ingestor process has exited yet.
NotExited == -1

\* The store before anything was ingested.
EmptyStore ==
    /\ agenciesT = {}
    /\ stopsT = {}
    /\ routesT = {}
    /\ tripsT = <<>>
    /\ stopTimesT = <<>>

\* The ingestor before its first run.
IdleIngest ==
    /\ ipc = "idle"
    /\ feed = NULL
    /\ runs = 0
    /\ stageErrs = {}
    /\ prevFeed = NULL
    /\ prevErrs = {}
    /\ exitCode = NotExited
    /\ snap = [agencies |-> {}, stops |-> {}, routes |-> {}, trips |-> <<>>,
               stop_times |-> <<>>]

InitBus == bus = <<>>

\* The poller's vehicle positions and main loop before the process starts.
IdleRealtime ==
    /\ vpFeed = <<>>
    /\ vpPolled = "none"
    /\ vpInserted = <<>>
    /\ vpPublished = <<>>
    /\ vpLog = <<>>
    /\ mainpc = "start"
    /\ cycles = 0
    /\ tickPending = FALSE
    /\ quitPending = FALSE
    /\ agencyIDs = {}
    /\ gpc = <<>>
    /\ sem = 0
    /\ fetchLog = <<>>
    /\ prevFailed = {}

\* The poller before its first poll of an agency that serves nothing.
IdlePoller ==
    /\ tuFeed = <<>>
    /\ tuPolled = "none"
    /\ published = <<>>
    /\ IdleRealtime

NoQuery ==
    [from |-> NULL, to |-> NULL, departAfter |-> 0, maxTransfers |-> 0, limit |-> 0]

\* The planner before its first query.
IdlePlanner ==
    /\ jquery = NoQuery
    /\ journeys = <<>>
    /\ jerr = "none"

NoLimit == 0

NoServiceCall ==
    [op |-> "none", query |-> "", lat |-> 0, near |-> "", id |-> "", limit |-> 0]

NoResponse == [err |-> "none", val |-> NoServiceCall]

NoPageRequest == [hasOffset |-> FALSE, offset |-> 0, hasLimit |-> FALSE, limit |-> 0]

NoPage ==
    [status |-> 0, panic |-> FALSE, data |-> <<>>, offset |-> 0, limit |-> 0,
     total |-> 0]

NotIssued ==
    [called |-> FALSE, findOk |-> FALSE, createOk |-> FALSE, markOk |-> FALSE,
     pushOk |-> FALSE, c |-> 0, before |-> {}, ok |-> FALSE, code |-> 0,
     calls |-> <<>>]

\* The query side before any request: no clamp applied, an empty cache, no
\* service call, no page served, IssueCompensation not called.
IdleQueries ==
    /\ limEndpoint = "none"
    /\ limArg = 0
    /\ limResult = NoLimit
    /\ svcHasCache = FALSE
    /\ svcCache = {}
    /\ svcReq = NoServiceCall
    /\ svcTrace = <<>>
    /\ svcResp = NoResponse
    /\ pgAgencies = <<>>
    /\ pgReq = NoPageRequest
    /\ pgResp = NoPage
    /\ issued = NotIssued

-----------------------------------------------------------------------------
(* Compensation saga                                                       *)

\* RetryPolicy{MaximumAttempts: 3}
MaximumAttempts == 3

\* The codes generateCode can draw (6 random bytes in the code).
MaxCodes == 2
Codes == 1..MaxCodes
NoCode == 0

\* Workflow input: CompensationInput.DelayEventID and .UserID
D1 == "D1"
U1 == "U1"

Affiliates == {"A1", "A2"}
NoAffiliate == ""
\* domain.Affiliate.Name of an affiliate id
NameOf(a) == IF a = "A1" THEN "Cafe A1" ELSE "Cafe A2"

\* The lists FindNearby can return (nearest first).
NearbyLists == {<<>>, <<"A1">>, <<"A2">>, <<"A1", "A2">>, <<"A2", "A1">>}

RowsFor(d) == {r \in compensations : r.delay_event = d}

InitSaga ==
    /\ wfpc = "FindNearestAffiliate"
    /\ attempt = 1
    /\ wfResult = "running"
    /\ affiliateID = NoAffiliate
    /\ affiliateName = ""
    /\ code = NoCode
    /\ compensations = {}
    /\ pushes = <<>>
    /\ delayMarked = FALSE
    /\ nearbyStop \in NearbyLists
    /\ nearbyZero \in NearbyLists
    /\ actNotifier \in BOOLEAN
    /\ clean = TRUE
    /\ pushFailed = 0
    /\ deleteCalls = <<>>
    /\ deleteErr = "none"

\* The saga before any workflow execution: what the other specifications
\* leave untouched.
IdleSaga ==
    /\ wfpc = "FindNearestAffiliate"
    /\ attempt = 1
    /\ wfResult = "running"
    /\ affiliateID = NoAffiliate
    /\ affiliateName = ""
    /\ code = NoCode
    /\ compensations = {}
    /\ pushes = <<>>
    /\ delayMarked = FALSE
    /\ nearbyStop = <<>>
    /\ nearbyZero = <<>>
    /\ actNotifier = FALSE
    /\ clean = TRUE
    /\ pushFailed = 0
    /\ deleteCalls = <<>>
    /\ deleteErr = "none"

\* A retry policy of a single attempt.
RetryOrElseOnce(pc, res) ==
    /\ attempt' = 1
    /\ wfpc' = pc
    /\ wfResult' = res

\* The engine's retry of a failed activity attempt: another attempt while
\* fewer than MaximumAttempts were made, else the activity's error reaches
\* the workflow, which moves to `pc` with result `res`.
RetryOrElse(pc, res) ==
    IF attempt < MaximumAttempts
    THEN /\ attempt' = attempt + 1
         /\ wfpc' = wfpc
         /\ wfResult' = wfResult
    ELSE /\ attempt' = 1
         /\ wfpc' = pc
         /\ wfResult' = res

\* Step 1: FindNearestAffiliate(input.StopLat, input.StopLon)
FindNearestAffiliate ==
    /\ wfpc = "FindNearestAffiliate"
    /\ \E repoOk \in BOOLEAN :
         IF repoOk /\ nearbyStop # <<>>
         THEN /\ affiliateID' = Head(nearbyStop)
              /\ attempt' = 1
              /\ wfpc' = "GetAffiliateName"
              /\ UNCHANGED <<wfResult, clean>>
         ELSE /\ RetryOrElse("done", "err_find")
              /\ clean' = FALSE
              /\ UNCHANGED affiliateID
    /\ UNCHANGED <<affiliateName, code, compensations, pushes, delayMarked,
                   nearbyStop, nearbyZero, actNotifier, pushFailed,
                   deleteCalls, deleteErr, notSaga>>

\* GetAffiliateName(affiliateID): its error is discarded by the workflow.
GetAffiliateName ==
    /\ wfpc = "GetAffiliateName"
    /\ \E repoOk \in BOOLEAN :
         IF repoOk
         THEN /\ affiliateName' = NameOf(affiliateID)
              /\ attempt' = 1
              /\ wfpc' = "GenerateCouponCode"
              /\ UNCHANGED <<wfResult, clean>>
         ELSE /\ RetryOrElse("GenerateCouponCode", wfResult)
              /\ clean' = FALSE
              /\ UNCHANGED affiliateName
    /\ UNCHANGED <<affiliateID, code, compensations, pushes, delayMarked,
                   nearbyStop, nearbyZero, actNotifier, pushFailed,
                   deleteCalls, deleteErr, notSaga>>

\* The notification IssueCompensation and SendPushNotification compose.
PushOf(by, userID, c, name) ==
    [by |-> by, user |-> userID, code |-> c, affiliate |-> name]

\* A best-effort call whose error is propagated to the caller.
Propagated(callOk) == callOk

\* A best-effort call: its error is dropped (`_ = err`), the caller goes on
\* whatever it returned.
Discarded(callOk) == TRUE

\* CompensationService.IssueCompensation(userID, delayEvent, stopLat, stopLon)
\* with `nearby` what affiliates.FindNearby returns there and the outcomes of
\* its calls: the value is what it returns, the state it leaves and the
\* calls it made on its ports.
IssueCompensation(userID, delayID, nearby, findOk, c, createOk, markOk, pushOk) ==
    LET failed(calls) ==
            [ok |-> FALSE, code |-> NoCode, comps |-> compensations,
             marked |-> delayMarked, sent |-> pushes, calls |-> calls]
    IN  IF ~findOk \/ nearby = <<>>
        THEN failed(<<"FindNearby">>)
        ELSE LET affiliate == Head(nearby)
                 comp == [user |-> userID, delay_event |-> delayID,
                          affiliate |-> affiliate, code |-> c]
             IN  IF ~createOk \/ (\E r \in compensations : r.code = c)
                 THEN failed(<<"FindNearby", "Create">>)
                 ELSE [ok |-> Discarded(markOk) /\ Discarded(pushOk),
                       code |-> c,
                       comps |-> compensations \cup {comp},
                       marked |-> (delayMarked \/ markOk),
                       sent |-> IF pushOk
                                THEN Append(pushes, PushOf("service", userID, c, NameOf(affiliate)))
                                ELSE pushes,
                       calls |-> <<"FindNearby", "Create", "MarkCompensated", "SendPush">>]

\* Step 2: GenerateCouponCode(input.UserID, affiliateID, input.DelayEventID),
\* which calls IssueCompensation(userID, {ID: delayEventID}, 0, 0).  `lost`:
\* the attempt ran but its result did not reach the engine within the
\* start-to-close timeout, so the engine counts the attempt as failed.
GenerateCouponCode ==
    /\ wfpc = "GenerateCouponCode"
    /\ \E findOk, createOk, markOk, pushOk, lost \in BOOLEAN, c \in Codes :
         LET res == IssueCompensation(U1, D1, nearbyZero, findOk, c, createOk, markOk, pushOk)
         IN  /\ compensations' = res.comps
             /\ delayMarked' = res.marked
             /\ pushes' = res.sent
             /\ IF res.ok /\ ~lost
                THEN /\ code' = res.code
                     /\ attempt' = 1
                     /\ wfpc' = "SendPushNotification"
                     /\ wfResult' = wfResult
                     /\ clean' = (clean /\ markOk /\ pushOk)
                ELSE /\ RetryOrElse("done", "err_gen")
                     /\ clean' = FALSE
                     /\ UNCHANGED code
    /\ UNCHANGED <<affiliateID, affiliateName, nearbyStop, nearbyZero,
                   actNotifier, pushFailed, deleteCalls, deleteErr, notSaga>>

\* Step 3: SendPushNotification(input.UserID, affiliateName, code).
\* `delivered`: the notification service delivered the push; `ok`: the
\* attempt reported success to the engine.
SendPushNotification ==
    /\ wfpc = "SendPushNotification"
    /\ IF ~actNotifier
       THEN /\ attempt' = 1
            /\ wfpc' = "done"
            /\ wfResult' = "ok"
            /\ UNCHANGED <<pushes, pushFailed, clean>>
       ELSE \E delivered, ok \in BOOLEAN :
              /\ ok => delivered
              /\ pushes' = IF delivered
                           THEN Append(pushes, PushOf("activity", U1, code, affiliateName))
                           ELSE pushes
              /\ IF ok
                 THEN /\ attempt' = 1
                      /\ wfpc' = "done"
                      /\ wfResult' = "ok"
                      /\ UNCHANGED <<pushFailed, clean>>
                 ELSE /\ RetryOrElse("DeleteCoupon", wfResult)
                      /\ pushFailed' = pushFailed + 1
                      /\ clean' = FALSE
    /\ UNCHANGED <<affiliateID, affiliateName, code, compensations, delayMarked,
                   nearbyStop, nearbyZero, actNotifier, deleteCalls, deleteErr,
                   notSaga>>

\* Compensation: DeleteCoupon(code), whose error the workflow discards; the
\* workflow then returns the push error.
DeleteCoupon ==
    /\ wfpc = "DeleteCoupon"
    /\ deleteCalls' = Append(deleteCalls, code)
    /\ \E deleted, ok \in BOOLEAN :
         /\ ok => deleted
         /\ compensations' = IF deleted
                             THEN {r \in compensations : r.code # code}
                             ELSE compensations
         /\ IF ok
            THEN /\ attempt' = 1
                 /\ wfpc' = "done"
                 /\ wfResult' = "err_push"
                 /\ deleteErr' = "ok"
            ELSE /\ RetryOrElse("done", "err_push")
                 /\ deleteErr' = IF attempt < MaximumAttempts THEN deleteErr ELSE "failed"
    /\ UNCHANGED <<affiliateID, affiliateName, code, pushes, delayMarked,
                   nearbyStop, nearbyZero, actNotifier, clean, pushFailed,
                   notSaga>>

NextSaga ==
    \/ FindNearestAffiliate
    \/ GetAffiliateName
    \/ GenerateCouponCode
    \/ SendPushNotification
    \/ DeleteCoupon

InitSagaSpec ==
    InitSaga /\ InitBus /\ EmptyStore /\ IdleIngest /\ IdlePoller /\ IdlePlanner
    /\ IdleQueries

SpecSaga == InitSagaSpec /\ [][NextSaga]_vars

\* The workflow has returned.
Terminal == wfpc = "done"

\* A notification reached the user.
Notified == pushes # <<>>

\* C1 (saga invariant): in every terminal state of the workflow, either a
\* compensation row exists for the delay event and a notification was
\* delivered to the user, or no compensation row exists for the delay event.
SagaInvariant ==
    Terminal => \/ (RowsFor(D1) # {} /\ Notified)
                \/ RowsFor(D1) = {}

\* C2 (saga success): when every step succeeded, the workflow ends in
\* success with exactly one compensation row for D1 and exactly one push
\* sent to U1 over the whole execution.
SagaSuccess ==
    (Terminal /\ clean) =>
        /\ wfResult = "ok"
        /\ Cardinality(RowsFor(D1)) = 1
        /\ Len(pushes) = 1
        /\ \A i \in 1..Len(pushes) : pushes[i].user = U1

\* C3 (saga rollback): if SendPushNotification failed on all 3 attempts, the
\* workflow executed DeleteCoupon with the code issued in this execution,
\* returned the push error, and no compensation row is left for the delay
\* event.
SagaRollback ==
    (Terminal /\ pushFailed = MaximumAttempts) =>
        /\ deleteCalls # <<>>
        /\ \A i \in 1..Len(deleteCalls) : deleteCalls[i] = code
        /\ wfResult = "err_push"
        /\ RowsFor(D1) = {}

\* C4 (workflow idempotence): whatever is retried, at most one compensation
\* row exists for the same delay_event_id.
IssueIdempotent == Cardinality(RowsFor(D1)) <= 1

-----------------------------------------------------------------------------
(* Message bus: JetStream streams, durable consumers, Subscriber callbacks *)

\* The most messages published in one behaviour.
MaxMsgs == 2

\* A subscription created with nats.MaxDeliver(4).
MaxDeliverOneMore == 3 + 1

\* nats.MaxDeliver(3)
MaxDeliver == 3

\* A subject is its sequence of tokens.  NATS matching: "*" is one token,
\* ">" is one or more trailing tokens.
RECURSIVE SubjectMatches(_, _)
SubjectMatches(pattern, subject) ==
    IF pattern = <<>> THEN subject = <<>>
    ELSE IF Head(pattern) = ">" THEN Len(pattern) = 1 /\ subject # <<>>
    ELSE IF subject = <<>> THEN FALSE
    ELSE /\ (Head(pattern) = "*" \/ Head(pattern) = Head(subject))
         /\ SubjectMatches(Tail(pattern), Tail(subject))

\* The streams NewPublisher ensures.
StreamConfigs ==
    { [name |-> "VEHICLE_POSITIONS", subjects |-> <<"transit", "vehicle", ">">>,
       retention |-> "workqueue"],
      [name |-> "TRANSIT_ALERTS", subjects |-> <<"transit", "alerts", ">">>,
       retention |-> "interest"],
      [name |-> "TRANSIT_DELAYS", subjects |-> <<"transit", "delay", ">">>,
       retention |-> "workqueue"] }

NoStream == "none"

\* The stream that stores a message published on `subject`.
StreamOf(subject) ==
    IF \E c \in StreamConfigs : SubjectMatches(c.subjects, subject)
    THEN (CHOOSE c \in StreamConfigs : SubjectMatches(c.subjects, subject)).name
    ELSE NoStream

RetentionOf(stream) ==
    (CHOOSE c \in StreamConfigs : c.name = stream).retention

\* The durable subscriptions of Subscriber.
Subscriptions ==
    { [durable |-> "vehicle-processor", subject |-> <<"transit", "vehicle", ">">>],
      [durable |-> "delay-processor", subject |-> <<"transit", "delay", ">">>],
      [durable |-> "detour-processor", subject |-> <<"transit", "alerts", "detour">>] }

NoConsumer == "none"

\* The durable consumer a message on `subject` is delivered to.
ConsumerOf(subject) ==
    IF \E c \in Subscriptions : SubjectMatches(c.subject, subject)
    THEN (CHOOSE c \in Subscriptions : SubjectMatches(c.subject, subject)).durable
    ELSE NoConsumer

\* A callback that forgets to nak (and return) when the handler fails.
VehicleCallbackAcksFailure(valid, handlerOk) ==
    IF ~valid THEN "nak"
    ELSE "ack"

\* The callback of SubscribeVehiclePositions: what it replies for a message
\* whose data json.Unmarshal accepts or not (`valid`) and for which the
\* handler returns nil or not (`handlerOk`).
VehicleCallback(valid, handlerOk) ==
    IF ~valid THEN "nak"
    ELSE IF ~handlerOk THEN "nak"
    ELSE "ack"

\* The callback of SubscribeDelayEvents.
DelayCallback(valid, handlerOk) ==
    IF ~valid THEN "nak"
    ELSE IF ~handlerOk THEN "nak"
    ELSE "ack"

\* The callback of SubscribeDetourAlerts: the data is passed on undecoded.
DetourCallback(valid, handlerOk) ==
    IF ~handlerOk THEN "nak"
    ELSE "ack"

Callback(durable, valid, handlerOk) ==
    IF durable = "vehicle-processor" THEN VehicleCallback(valid, handlerOk)
    ELSE IF durable = "delay-processor" THEN DelayCallback(valid, handlerOk)
    ELSE DetourCallback(valid, handlerOk)

\* Whether the callback of `durable` decodes the data before the handler.
Decodes(durable) == durable # "detour-processor"

Ids == {"x1"}

\* A message as JetStream holds it.  status: "stored" (waiting for a
\* delivery), "inflight" (delivered, not yet replied to), "acked",
\* "dropped" (the delivery limit is exhausted), "expired" (older than the
\* stream's MaxAge), "unrouted" (no stream or no consumer takes it).
NewMsg(subject, valid) ==
    [subject |-> subject, valid |-> valid, stream |-> StreamOf(subject),
     consumer |-> ConsumerOf(subject),
     status |-> IF StreamOf(subject) = NoStream \/ ConsumerOf(subject) = NoConsumer
                THEN "unrouted" ELSE "stored",
     deliveries |-> 0, log |-> <<>>]

Publish(subject, valid) ==
    /\ Len(bus) < MaxMsgs
    /\ bus' = Append(bus, NewMsg(subject, valid))
    /\ UNCHANGED notBus

\* Publisher.PublishVehiclePosition: json.Marshal(vp) on transit.vehicle.<id>
PublishVehiclePosition ==
    \E id \in Ids : Publish(<<"transit", "vehicle", id>>, TRUE)

\* Publisher.PublishDelayEvent: json.Marshal(event) on transit.delay.<trip>
PublishDelayEvent ==
    \E id \in Ids : Publish(<<"transit", "delay", id>>, TRUE)

\* Publisher.PublishDetourAlert: the trip id on transit.alerts.detour
PublishDetourAlert ==
    Publish(<<"transit", "alerts", "detour">>, TRUE)

\* Publisher.PublishBroadcast: plain publish on transit.updates.broadcast
PublishBroadcast ==
    Publish(<<"transit", "updates", "broadcast">>, TRUE)

\* Any other client of the bus publishing data the subscriber cannot decode.
PublishForeign ==
    \E kind \in {"vehicle", "delay"} :
        Publish(<<"transit", kind, "x1">>, FALSE)

\* JetStream delivers a stored message to its durable consumer.
Deliver(i) ==
    /\ bus[i].status = "stored"
    /\ bus[i].deliveries < MaxDeliver
    /\ bus' = [bus EXCEPT ![i].status = "inflight",
                          ![i].deliveries = bus[i].deliveries + 1]
    /\ UNCHANGED notBus

\* JetStream's handling of a reply: an ack removes the message; after a nak
\* the message is redelivered unless MaxDeliver deliveries were made.
AfterReply(m, reply) ==
    IF reply = "ack" THEN "acked"
    ELSE IF m.deliveries < MaxDeliver THEN "stored"
    ELSE "dropped"

\* The subscription callback runs for a delivered message and replies.
Handle(i) ==
    /\ bus[i].status = "inflight"
    /\ \E handlerOk \in BOOLEAN :
         LET m == bus[i]
             reply == Callback(m.consumer, m.valid, handlerOk)
             called == ~Decodes(m.consumer) \/ m.valid
             entry == [decoded |-> (~Decodes(m.consumer) \/ m.valid),
                       called |-> called,
                       handlerOk |-> (called /\ handlerOk),
                       reply |-> reply,
                       delivery |-> m.deliveries]
         IN  bus' = [bus EXCEPT ![i].status = AfterReply(m, reply),
                                ![i].log = Append(m.log, entry)]
    /\ UNCHANGED notBus

\* The stream's MaxAge (1 hour, 24 hours) removes a message still stored.
Expire(i) ==
    /\ bus[i].status \in {"stored", "inflight"}
    /\ bus' = [bus EXCEPT ![i].status = "expired"]
    /\ UNCHANGED notBus

NextBus ==
    \/ PublishVehiclePosition
    \/ PublishDelayEvent
    \/ PublishDetourAlert
    \/ PublishBroadcast
    \/ PublishForeign
    \/ \E i \in 1..Len(bus) : Deliver(i)
    \/ \E i \in 1..Len(bus) : Handle(i)
    \/ \E i \in 1..Len(bus) : Expire(i)

InitBusSpec ==
    IdleSaga /\ InitBus /\ EmptyStore /\ IdleIngest /\ IdlePoller /\ IdlePlanner
    /\ IdleQueries

SpecBus == InitBusSpec /\ [][NextBus]_vars

\* The messages held by a work-queue stream.
WorkQueueMsgs ==
    {i \in 1..Len(bus) : /\ bus[i].stream # NoStream
                         /\ RetentionOf(bus[i].stream) = "workqueue"}

Gone(i) == bus[i].status \in {"dropped", "expired"}

LastReply(i) == bus[i].log[Len(bus[i].log)].reply

\* C5 (bus retention), as claimed: every message of a work-queue stream is
\* delivered at most 3 times, and one that is gone from the stream was
\* delivered at least once before.
BusRetention ==
    \A i \in WorkQueueMsgs :
        /\ bus[i].deliveries <= 3
        /\ Gone(i) => bus[i].deliveries >= 1

\* C5, amended: every message of a work-queue stream is delivered at most 3
\* times; one dropped by the delivery limit was delivered exactly 3 times
\* and one that was acked at least once; a message that is gone without any
\* delivery was removed by the stream's MaxAge.
BusRetentionUnlessExpired ==
    \A i \in WorkQueueMsgs :
        /\ bus[i].deliveries <= 3
        /\ bus[i].status = "dropped" => bus[i].deliveries = 3
        /\ bus[i].status = "acked" => bus[i].deliveries >= 1
        /\ (Gone(i) /\ bus[i].deliveries = 0) => bus[i].status = "expired"

\* C5 witness: a work-queue message dropped after its third delivery.
BusRetentionWitness ==
    \E i \in WorkQueueMsgs :
        bus[i].status = "dropped" /\ bus[i].deliveries = 3

\* Each reply is an ack exactly when decoding and the handler both
\* succeeded, and a nak when decoding failed or the handler returned an
\* error; nothing is delivered after an ack.
RepliesFollowOutcome ==
    \A i \in 1..Len(bus) :
        /\ \A j \in 1..Len(bus[i].log) :
             LET e == bus[i].log[j]
             IN  /\ e.reply = "ack" <=> (e.decoded /\ e.called /\ e.handlerOk)
                 /\ e.reply = "nak" <=> (~e.decoded \/ ~e.handlerOk)
                 /\ e.reply = "ack" => j = Len(bus[i].log)
        /\ bus[i].status = "acked" =>
             /\ bus[i].log # <<>>
             /\ LastReply(i) = "ack"
             /\ bus[i].deliveries = Len(bus[i].log)
        /\ (bus[i].status \in {"stored", "inflight"} /\ bus[i].log # <<>>) =>
             LastReply(i) = "nak"

\* C6 (subscriber handler contract), as claimed: replies follow the outcome,
\* a nak'd message is delivered again until 3 deliveries were made and only
\* then dropped, and nothing is redelivered after an ack.
SubscriberContract ==
    /\ RepliesFollowOutcome
    /\ \A i \in 1..Len(bus) :
         /\ bus[i].deliveries <= 3
         /\ (Gone(i) /\ bus[i].log # <<>> /\ LastReply(i) = "nak") =>
                bus[i].deliveries = 3

\* C6, amended: replies follow the outcome; after a nak the message is
\* stored for redelivery while fewer than 3 deliveries were made, and it is
\* dropped at the third nak; a nak'd message that is gone after fewer than
\* 3 deliveries was removed by the stream's MaxAge; nothing is redelivered
\* after an ack.
SubscriberContractUnlessExpired ==
    /\ RepliesFollowOutcome
    /\ \A i \in 1..Len(bus) :
         /\ bus[i].deliveries <= 3
         /\ bus[i].status = "dropped" =>
                /\ bus[i].deliveries = 3
                /\ Len(bus[i].log) = 3
                /\ \A j \in 1..3 : bus[i].log[j].reply = "nak"
         /\ (bus[i].status = "stored" /\ bus[i].log # <<>>) =>
                bus[i].deliveries < 3
         /\ (Gone(i) /\ bus[i].log # <<>> /\ LastReply(i) = "nak"
                /\ bus[i].deliveries < 3) => bus[i].status = "expired"

\* C6 witness: a message nak'd because its handler failed, delivered again
\* and then acked.
SubscriberContractWitness ==
    \E i \in 1..Len(bus) :
        /\ Len(bus[i].log) = 2
        /\ bus[i].log[1].reply = "nak"
        /\ bus[i].log[1].decoded
        /\ bus[i].log[2].reply = "ack"
        /\ bus[i].status = "acked"

-----------------------------------------------------------------------------
(* Static ingestor: cmd/ingestor and the schema of migrations/002          *)

\* The most ingestor runs in one behaviour.
MaxRuns == 2

\* GTFS archives.  A stop row carries `zero`: stop_lat and stop_lon are both
\* 0.  A time is the ":"-separated parts of the text, as numbers; the empty
\* text has no parts.
T(h, m, sec) == <<h, m, sec>>
NoTime == <<>>

ToyStops ==
    << [stop_id |-> "S1", name |-> "Stop 1", zero |-> FALSE],
       [stop_id |-> "S2", name |-> "Stop 2", zero |-> FALSE] >>

ToyStopTimes ==
    << [trip_id |-> "T1", stop_id |-> "S1", seq |-> 1,
        arrival |-> T(8, 0, 0), departure |-> T(8, 0, 0)],
       [trip_id |-> "T1", stop_id |-> "S2", seq |-> 2,
        arrival |-> T(8, 5, 0), departure |-> T(8, 5, 0)] >>

ToyFeed ==
    [agency_name |-> "Toy Transit",
     stops |-> ToyStops,
     routes |-> << [route_id |-> "R1", short |-> "1", long |-> ""] >>,
     trips |-> << [trip_id |-> "T1", route_id |-> "R1", headsign |-> "Centro",
                   shape_id |-> "", bikes |-> FALSE] >>,
     stop_times |-> ToyStopTimes,
     shapes |-> {}]

\* The toy feed, changed: a stop renamed, the route given a long name, the
\* trip's headsign, shape and bikes_allowed changed, a shape added.
ToyFeedChanged ==
    [agency_name |-> "Toy Transit SA",
     stops |-> << [stop_id |-> "S1", name |-> "Stop One", zero |-> FALSE],
                  [stop_id |-> "S2", name |-> "Stop 2", zero |-> FALSE] >>,
     routes |-> << [route_id |-> "R1", short |-> "1", long |-> "Line 1"] >>,
     trips |-> << [trip_id |-> "T1", route_id |-> "R1", headsign |-> "Puerto",
                   shape_id |-> "SH1", bikes |-> TRUE] >>,
     stop_times |-> ToyStopTimes,
     shapes |-> {"SH1"}]

\* A feed that repeats a stop_times row, has a stop at (0, 0), a stop-time
\* with no times and a trip on a route that routes.txt does not have.
ToyFeedRagged ==
    [agency_name |-> "Toy Transit",
     stops |-> << [stop_id |-> "S1", name |-> "Stop 1", zero |-> FALSE],
                  [stop_id |-> "S2", name |-> "Stop 2", zero |-> TRUE] >>,
     routes |-> << [route_id |-> "R1", short |-> "", long |-> ""] >>,
     trips |-> << [trip_id |-> "T1", route_id |-> "R1", headsign |-> "Centro",
                   shape_id |-> "", bikes |-> FALSE],
                  [trip_id |-> "T9", route_id |-> "R9", headsign |-> "",
                   shape_id |-> "", bikes |-> FALSE] >>,
     stop_times |-> << ToyStopTimes[1], ToyStopTimes[1],
                       [trip_id |-> "T1", stop_id |-> "S2", seq |-> 2,
                        arrival |-> NoTime, departure |-> NoTime] >>,
     shapes |-> {}]

FeedNames == {"toy", "toy_changed", "toy_ragged"}

Feed(name) ==
    IF name = "toy" THEN ToyFeed
    ELSE IF name = "toy_changed" THEN ToyFeedChanged
    ELSE ToyFeedRagged

\* The manifest's agency.
Slug == "toy"

\* parseGTFSTime: seconds of "HH:MM:SS" (hours above 23 allowed), 0 for a
\* text that does not have three parts.
parseGTFSTime(parts) ==
    IF Len(parts) # 3 THEN 0
    ELSE parts[1] * 3600 + parts[2] * 60 + parts[3]

\* upsertAgency: INSERT ... ON CONFLICT (slug) DO UPDATE SET name, url
upsertAgency(table, slug, name) ==
    {r \in table : r.slug # slug} \cup {[slug |-> slug, name |-> name]}

\* processStops: rows at (0, 0) are skipped; INSERT ... ON CONFLICT
\* (agency_id, stop_id) DO UPDATE.
RECURSIVE processStops(_, _)
processStops(table, rows) ==
    IF rows = <<>> THEN table
    ELSE LET r == Head(rows)
             next == IF r.zero THEN table
                     ELSE {x \in table : x.stop_id # r.stop_id}
                          \cup {[stop_id |-> r.stop_id, name |-> r.name]}
         IN  processStops(next, Tail(rows))

\* processRoutes: long_name falls back to short_name, then to route_id;
\* INSERT ... ON CONFLICT (agency_id, route_id) DO UPDATE, which keeps shape.
RECURSIVE processRoutes(_, _)
processRoutes(table, rows) ==
    IF rows = <<>> THEN table
    ELSE LET r == Head(rows)
             long1 == IF r.long = "" THEN r.short ELSE r.long
             long2 == IF long1 = "" THEN r.route_id ELSE long1
             old == {x \in table : x.route_id = r.route_id}
             shape == IF old = {} THEN NULL ELSE (CHOOSE x \in old : TRUE).shape
         IN  processRoutes((table \ old)
                             \cup {[route_id |-> r.route_id, short_name |-> r.short,
                                    long_name |-> long2, shape |-> shape]},
                           Tail(rows))

\* (SELECT id FROM routes WHERE route_id = $2 AND agency_id = $3)
RouteRef(routes, routeID) ==
    IF \E x \in routes : x.route_id = routeID THEN routeID ELSE NULL

\* processTrips: INSERT ... ON CONFLICT (route_id, trip_id) DO UPDATE SET
\* service_id, headsign, direction_id, shape_id.  A NULL route_id conflicts
\* with nothing.
RECURSIVE processTrips(_, _, _)
processTrips(table, routes, rows) ==
    IF rows = <<>> THEN table
    ELSE LET r == Head(rows)
             route == RouteRef(routes, r.route_id)
             hit == {i \in 1..Len(table) : /\ route # NULL
                                           /\ table[i].route = route
                                           /\ table[i].trip_id = r.trip_id}
             next == IF hit # {}
                     THEN [i \in 1..Len(table) |->
                             IF i \in hit
                             THEN [table[i] EXCEPT !.headsign = r.headsign,
                                                   !.shape_id = r.shape_id]
                             ELSE table[i]]
                     ELSE Append(table, [id |-> Len(table) + 1, trip_id |-> r.trip_id,
                                         route |-> route, headsign |-> r.headsign,
                                         shape_id |-> r.shape_id, bikes |-> r.bikes])
         IN  processTrips(next, routes, Tail(rows))

\* The unique indexes of stop_times besides its primary key id, each the
\* set of its columns: the table declares none.
StopTimesUnique == {}

\* Whether inserting `row` conflicts with a row of stop_times.
StopTimeConflict(table, row) ==
    \E k \in StopTimesUnique :
        \E i \in 1..Len(table) : \A c \in k : table[i][c] = row[c]

\* (SELECT id FROM trips WHERE trip_id = $1 AND route_id IN (SELECT id FROM
\* routes WHERE agency_id = $6)): the ids it yields.
TripIds(trips, tripID) ==
    {trips[i].id : i \in {j \in 1..Len(trips) : /\ trips[j].trip_id = tripID
                                                /\ trips[j].route # NULL}}

NoTrip == 0

\* (SELECT id FROM stops WHERE stop_id = $2 AND agency_id = $6)
StopRef(stops, stopID) ==
    IF \E x \in stops : x.stop_id = stopID THEN stopID ELSE NULL

\* processStopTimes: INSERT ... ON CONFLICT DO NOTHING of every row, trip and
\* stop resolved by subquery (NULL when nothing matches).
RECURSIVE processStopTimes(_, _, _, _)
processStopTimes(table, trips, stops, rows) ==
    IF rows = <<>> THEN table
    ELSE LET r == Head(rows)
             ids == TripIds(trips, r.trip_id)
             row == [trip |-> IF ids = {} THEN NoTrip ELSE CHOOSE i \in ids : TRUE,
                     stop |-> StopRef(stops, r.stop_id),
                     stop_sequence |-> r.seq,
                     arrival_time |-> parseGTFSTime(r.arrival),
                     departure_time |-> parseGTFSTime(r.departure)]
             next == IF StopTimeConflict(table, row) THEN table
                     ELSE Append(table, row)
         IN  processStopTimes(next, trips, stops, Tail(rows))

\* processShapes: UPDATE routes SET shape WHERE id IN (routes with a trip of
\* that shape_id) AND shape IS NULL, for the shapes in `order`.
RECURSIVE processShapes(_, _, _)
processShapes(routes, trips, order) ==
    IF order = <<>> THEN routes
    ELSE LET sid == Head(order)
             hit == {x \in routes :
                       /\ x.shape = NULL
                       /\ \E i \in 1..Len(trips) : /\ trips[i].route = x.route_id
                                                   /\ trips[i].shape_id = sid}
         IN  processShapes((routes \ hit)
                             \cup {[x EXCEPT !.shape = sid] : x \in hit},
                           trips, Tail(order))

\* The orders in which a Go map of the shapes can be ranged over.
Orders(S) ==
    {q \in [1..Cardinality(S) -> S] : \A i, j \in 1..Cardinality(S) : i # j => q[i] # q[j]}

Store ==
    [agencies |-> agenciesT, stops |-> stopsT, routes |-> routesT,
     trips |-> tripsT, stop_times |-> stopTimesT]

\* main up to ingestAgency's first table stage: configuration, database
\* pool and manifest (log.Fatalf on error), then for the agency download,
\* HTTP status, body, zip, upsertAgency.  An error of any of these ends
\* the agency's run; main logs it, waits and returns.
StartIngest ==
    /\ ipc = "idle"
    /\ runs < MaxRuns
    /\ \E f \in FeedNames, setupOk, fetchOk, upsertOk \in BOOLEAN :
         /\ feed' = f
         /\ prevFeed' = feed
         /\ prevErrs' = stageErrs
         /\ snap' = Store
         /\ IF ~setupOk
            THEN /\ agenciesT' = agenciesT
                 /\ ipc' = "idle"
                 /\ stageErrs' = {"setup"}
                 /\ runs' = runs + 1
                 /\ exitCode' = 1
            ELSE IF fetchOk /\ upsertOk
            THEN /\ agenciesT' = upsertAgency(agenciesT, Slug, Feed(f).agency_name)
                 /\ ipc' = "stops"
                 /\ stageErrs' = {}
                 /\ runs' = runs
                 /\ exitCode' = NotExited
            ELSE /\ agenciesT' = agenciesT
                 /\ ipc' = "idle"
                 /\ stageErrs' = {"agency"}
                 /\ runs' = runs + 1
                 /\ exitCode' = 0
    /\ UNCHANGED <<stopsT, routesT, tripsT, stopTimesT, notIngest>>

\* A table stage whose error ends the agency's run.
StageFailedAborts(stage, next) ==
    /\ ipc' = "idle"
    /\ stageErrs' = stageErrs \cup {stage}

\* A table stage that failed (file missing, header unreadable, batch
\* error): ingestAgency logs it and goes on with the next stage.
StageFailed(stage, next) ==
    /\ ipc' = next
    /\ stageErrs' = stageErrs \cup {stage}

StageDone(next) ==
    /\ ipc' = next
    /\ stageErrs' = stageErrs

StopsStage ==
    /\ ipc = "stops"
    /\ \E ok \in BOOLEAN :
         IF ok THEN stopsT' = processStops(stopsT, Feed(feed).stops) /\ StageDone("routes")
         ELSE stopsT' = stopsT /\ StageFailed("stops", "routes")
    /\ UNCHANGED <<agenciesT, routesT, tripsT, stopTimesT, feed, runs,
                   prevFeed, prevErrs, snap, exitCode, notIngest>>

RoutesStage ==
    /\ ipc = "routes"
    /\ \E ok \in BOOLEAN :
         IF ok THEN routesT' = processRoutes(routesT, Feed(feed).routes) /\ StageDone("trips")
         ELSE routesT' = routesT /\ StageFailed("routes", "trips")
    /\ UNCHANGED <<agenciesT, stopsT, tripsT, stopTimesT, feed, runs,
                   prevFeed, prevErrs, snap, exitCode, notIngest>>

TripsStage ==
    /\ ipc = "trips"
    /\ \E ok \in BOOLEAN :
         IF ok THEN tripsT' = processTrips(tripsT, routesT, Feed(feed).trips) /\ StageDone("stop_times")
         ELSE tripsT' = tripsT /\ StageFailed("trips", "stop_times")
    /\ UNCHANGED <<agenciesT, stopsT, routesT, stopTimesT, feed, runs,
                   prevFeed, prevErrs, snap, exitCode, notIngest>>

StopTimesStage ==
    /\ ipc = "stop_times"
    /\ \E ok \in BOOLEAN :
         IF ok /\ \A r \in {Feed(feed).stop_times[i] : i \in 1..Len(Feed(feed).stop_times)} :
                      Cardinality(TripIds(tripsT, r.trip_id)) <= 1
         THEN /\ stopTimesT' = processStopTimes(stopTimesT, tripsT, stopsT, Feed(feed).stop_times)
              /\ StageDone("shapes")
         ELSE stopTimesT' = stopTimesT /\ StageFailed("stop_times", "shapes")
    /\ UNCHANGED <<agenciesT, stopsT, routesT, tripsT, feed, runs,
                   prevFeed, prevErrs, snap, exitCode, notIngest>>

\* The last stage; ingestAgency then returns nil, main logs "ingestion
\* complete" and returns.
ShapesStage ==
    /\ ipc = "shapes"
    /\ \E ok \in BOOLEAN :
         IF ok
         THEN /\ \E order \in Orders(Feed(feed).shapes) :
                    routesT' = processShapes(routesT, tripsT, order)
              /\ StageDone("idle")
         ELSE routesT' = routesT /\ StageFailed("shapes", "idle")
    /\ runs' = runs + 1
    /\ exitCode' = 0
    /\ UNCHANGED <<agenciesT, stopsT, tripsT, stopTimesT, feed,
                   prevFeed, prevErrs, snap, notIngest>>

NextIngest ==
    \/ StartIngest
    \/ StopsStage
    \/ RoutesStage
    \/ TripsStage
    \/ StopTimesStage
    \/ ShapesStage

InitIngestSpec ==
    IdleSaga /\ InitBus /\ EmptyStore /\ IdleIngest /\ IdlePoller /\ IdlePlanner
    /\ IdleQueries

SpecIngest == InitIngestSpec /\ [][NextIngest]_vars

\* The rows of agencies, stops, routes, trips and stop_times, counted.
RowCounts ==
    <<Cardinality(agenciesT), Cardinality(stopsT), Cardinality(routesT),
      Len(tripsT), Len(stopTimesT)>>

\* The run that just ended ingested the same archive as the run before it,
\* and neither met an error.
RanTwice ==
    /\ ipc = "idle"
    /\ runs >= 2
    /\ feed = prevFeed
    /\ stageErrs = {}
    /\ prevErrs = {}

\* The stops, routes and trips of the store carry what the archive says.
ReflectsFeed(f) ==
    /\ \A i \in 1..Len(f.stops) :
         (~f.stops[i].zero /\ \A j \in (i+1)..Len(f.stops) : f.stops[j].stop_id # f.stops[i].stop_id)
            => [stop_id |-> f.stops[i].stop_id, name |-> f.stops[i].name] \in stopsT
    /\ \A i \in 1..Len(f.trips) :
         RouteRef(routesT, f.trips[i].route_id) # NULL =>
            \E j \in 1..Len(tripsT) :
                /\ tripsT[j].trip_id = f.trips[i].trip_id
                /\ tripsT[j].route = f.trips[i].route_id
                /\ tripsT[j].headsign = f.trips[i].headsign
                /\ tripsT[j].bikes = f.trips[i].bikes

\* C7 (ingest idempotence): running the ingestor twice in a row on the same
\* archive leaves the rows that one run leaves, the mutable fields are those
\* of the latest archive, and re-ingesting the toy feed keeps 1 agency,
\* 2 stops, 1 route, 1 trip and 2 stop-times.
IngestIdempotent ==
    /\ RanTwice => Store = snap
    /\ (ipc = "idle" /\ runs >= 1 /\ stageErrs = {}) => ReflectsFeed(Feed(feed))
    /\ (RanTwice /\ feed = "toy") => RowCounts = <<1, 2, 1, 1, 2>>

\* C8 (stop-time uniqueness): no two stop_times rows share
\* (trip, stop_sequence).
StopTimesUniquePerTrip ==
    \A i, j \in 1..Len(stopTimesT) :
        (i # j /\ stopTimesT[i].trip = stopTimesT[j].trip
               /\ stopTimesT[i].stop_sequence = stopTimesT[j].stop_sequence)
            => FALSE

-----------------------------------------------------------------------------
(* Real-time poller, delay detection: pollTripUpdates of cmd/realtime      *)

\* The most stop_time_updates in one trip update.
MaxStus == 2

\* Delays a feed reports, in seconds.
Delays == {0, 180, 181}

\* A StopTimeEvent's optional delay: the event is absent or carries no delay
\* (has = FALSE), or carries `delay`.
NoDelay == [has |-> FALSE, delay |-> 0]
OptDelays == {NoDelay} \cup {[has |-> TRUE, delay |-> d] : d \in Delays}

\* stop_ids by position in the trip update.
StopIds == <<"S1", "S2", "S3", "S4">>

\* The stop_time_update lists of at most n entries.
RECURSIVE StuLists(_)
StuLists(n) ==
    IF n = 0 THEN {<<>>}
    ELSE LET shorter == StuLists(n - 1)
         IN  shorter \cup
             {Append(l, [stop_id |-> StopIds[n], arrival |-> a, departure |-> d]) :
                 l \in {x \in shorter : Len(x) = n - 1}, a \in OptDelays, d \in OptDelays}

\* A feed entity without a trip update (a vehicle or an alert).
OtherEntity ==
    [has_tu |-> FALSE, trip_id |-> "", route_id |-> "", delay |-> 0, stus |-> <<>>]

TripUpdate(tripID, routeID, delay, stus) ==
    [has_tu |-> TRUE, trip_id |-> tripID, route_id |-> routeID, delay |-> delay,
     stus |-> stus]

FirstEntities ==
    {OtherEntity} \cup
    {TripUpdate("T1", "R1", d, l) : d \in Delays, l \in StuLists(MaxStus)}

SecondEntities ==
    { OtherEntity,
      TripUpdate("T2", "R2", 181, <<[stop_id |-> "S1", arrival |-> NoDelay,
                                     departure |-> NoDelay]>>),
      TripUpdate("T2", "R2", 0, <<[stop_id |-> "S1",
                                   arrival |-> [has |-> TRUE, delay |-> 181],
                                   departure |-> NoDelay]>>) }

TripUpdateFeeds ==
    {<<>>} \cup {<<e>> : e \in FirstEntities}
           \cup {<<e1, e2>> : e1 \in FirstEntities, e2 \in SecondEntities}

\* The delay pollTripUpdates takes for a stop_time_update: arrival's, else
\* departure's, else the trip's.
StopDelayDepartureFirst(tu, stu) ==
    IF stu.departure.has THEN stu.departure.delay
    ELSE IF stu.arrival.has THEN stu.arrival.delay
    ELSE tu.delay

StopDelay(tu, stu) ==
    IF stu.arrival.has THEN stu.arrival.delay
    ELSE IF stu.departure.has THEN stu.departure.delay
    ELSE tu.delay

DelaysSubject == "transit.delays.detected"

\* The alerts published for the stop_time_updates of one trip update.
RECURSIVE StuAlerts(_, _)
StuAlerts(tu, stus) ==
    IF stus = <<>> THEN <<>>
    ELSE LET stu == Head(stus)
             stopDelay == StopDelay(tu, stu)
             now == IF stopDelay > 180
                    THEN << [subject |-> DelaysSubject, agency |-> Slug,
                             trip_id |-> tu.trip_id, stop_id |-> stu.stop_id,
                             delay_sec |-> stopDelay, route_id |-> tu.route_id] >>
                    ELSE <<>>
         IN  now \o StuAlerts(tu, Tail(stus))

\* The loop over the feed's entities.
RECURSIVE EntityAlerts(_)
EntityAlerts(entities) ==
    IF entities = <<>> THEN <<>>
    ELSE LET e == Head(entities)
         IN  (IF e.has_tu THEN StuAlerts(e, e.stus) ELSE <<>>)
             \o EntityAlerts(Tail(entities))

\* pollTripUpdates: fetchFeed, then the loop; a fetch error is returned
\* before anything is published.
PollTripUpdates ==
    /\ tuPolled = "none"
    /\ \E fetchOk \in BOOLEAN :
         IF fetchOk
         THEN /\ published' = EntityAlerts(tuFeed)
              /\ tuPolled' = "ok"
         ELSE /\ published' = published
              /\ tuPolled' = "err"
    /\ UNCHANGED <<tuFeed, notPoller>>

NextDelay == PollTripUpdates

InitDelaySpec ==
    /\ IdleSaga /\ InitBus /\ EmptyStore /\ IdleIngest /\ IdlePlanner /\ IdleQueries
    /\ IdleRealtime
    /\ tuFeed \in TripUpdateFeeds
    /\ tuPolled = "none"
    /\ published = <<>>

SpecDelay == InitDelaySpec /\ [][NextDelay]_vars

\* The stop_time_updates of the feed: <<entity index, update index>>.
Updates ==
    {<<e, u>> \in (1..Len(tuFeed)) \X (1..MaxStus + 1) :
        tuFeed[e].has_tu /\ u <= Len(tuFeed[e].stus)}

\* The effective delay of a stop_time_update, as the specification gives it.
Effective(p) ==
    LET tu == tuFeed[p[1]]
        stu == tu.stus[p[2]]
    IN  IF stu.arrival.has THEN stu.arrival.delay
        ELSE IF stu.departure.has THEN stu.departure.delay
        ELSE tu.delay

Significant == {p \in Updates : Effective(p) > 180}

\* The published messages that are about stop_time_update p.
MessagesOf(p) ==
    {k \in 1..Len(published) :
        /\ published[k].trip_id = tuFeed[p[1]].trip_id
        /\ published[k].stop_id = tuFeed[p[1]].stus[p[2]].stop_id}

\* C9 (delay detection): pollTripUpdates publishes on transit.delays.detected
\* one message for each stop_time_update whose effective delay (arrival's,
\* else departure's, else the trip's) is above 180 seconds and none for the
\* others; delay_sec is that effective delay, so it is above 180.
DelayDetection ==
    /\ tuPolled = "ok" =>
         /\ Len(published) = Cardinality(Significant)
         /\ \A p \in Updates :
              IF p \in Significant
              THEN /\ Cardinality(MessagesOf(p)) = 1
                   /\ \A k \in MessagesOf(p) : published[k].delay_sec = Effective(p)
              ELSE MessagesOf(p) = {}
    /\ \A k \in 1..Len(published) :
         /\ published[k].subject = "transit.delays.detected"
         /\ published[k].delay_sec > 180

\* A poll that published for a departure delay and for a trip-level delay,
\* and kept silent on an update whose arrival delay is 180 while its
\* departure delay is 181.
DelayDetectionWitness ==
    /\ tuPolled = "ok"
    /\ Len(published) >= 2
    /\ \E p \in Updates :
         LET stu == tuFeed[p[1]].stus[p[2]]
         IN  /\ stu.arrival = [has |-> TRUE, delay |-> 180]
             /\ stu.departure = [has |-> TRUE, delay |-> 181]
             /\ MessagesOf(p) = {}
    /\ \E p \in Significant :
         LET stu == tuFeed[p[1]].stus[p[2]]
         IN  ~stu.arrival.has /\ stu.departure.has
    /\ \E p \in Significant :
         LET stu == tuFeed[p[1]].stus[p[2]]
         IN  ~stu.arrival.has /\ ~stu.departure.has

-----------------------------------------------------------------------------
(* Journey planner: JourneyRepo.FindJourneys over the ingested store       *)

\* A network of two routes that meet at stop X: TA reaches X at 08:10; TB
\* leaves X 5 minutes later, TC 1 minute later, TE 40 minutes later, and TD,
\* of TA's route, 10 minutes later.  TN is a direct trip after midnight of
\* the service day, T1 a direct trip in the morning.
NetFeed ==
    [agency_name |-> "Toy Transit",
     stops |-> << [stop_id |-> "S1", name |-> "Stop 1", zero |-> FALSE],
                  [stop_id |-> "X", name |-> "Exchange", zero |-> FALSE],
                  [stop_id |-> "S2", name |-> "Stop 2", zero |-> FALSE] >>,
     routes |-> << [route_id |-> "RA", short |-> "A", long |-> "Line A"],
                   [route_id |-> "RB", short |-> "B", long |-> "Line B"] >>,
     trips |-> << [trip_id |-> "TA", route_id |-> "RA", headsign |-> "", shape_id |-> "", bikes |-> FALSE],
                  [trip_id |-> "TB", route_id |-> "RB", headsign |-> "", shape_id |-> "", bikes |-> FALSE],
                  [trip_id |-> "TC", route_id |-> "RB", headsign |-> "", shape_id |-> "", bikes |-> FALSE],
                  [trip_id |-> "TD", route_id |-> "RA", headsign |-> "", shape_id |-> "", bikes |-> FALSE],
                  [trip_id |-> "TE", route_id |-> "RB", headsign |-> "", shape_id |-> "", bikes |-> FALSE],
                  [trip_id |-> "TN", route_id |-> "RA", headsign |-> "", shape_id |-> "", bikes |-> FALSE],
                  [trip_id |-> "T1", route_id |-> "RB", headsign |-> "", shape_id |-> "", bikes |-> FALSE] >>,
     stop_times |->
        << [trip_id |-> "TA", stop_id |-> "S1", seq |-> 1, arrival |-> T(8, 0, 0), departure |-> T(8, 0, 0)],
           [trip_id |-> "TA", stop_id |-> "X", seq |-> 2, arrival |-> T(8, 10, 0), departure |-> T(8, 10, 0)],
           [trip_id |-> "TB", stop_id |-> "X", seq |-> 1, arrival |-> T(8, 15, 0), departure |-> T(8, 15, 0)],
           [trip_id |-> "TB", stop_id |-> "S2", seq |-> 2, arrival |-> T(8, 25, 0), departure |-> T(8, 25, 0)],
           [trip_id |-> "TC", stop_id |-> "X", seq |-> 1, arrival |-> T(8, 11, 0), departure |-> T(8, 11, 0)],
           [trip_id |-> "TC", stop_id |-> "S2", seq |-> 2, arrival |-> T(8, 20, 0), departure |-> T(8, 20, 0)],
           [trip_id |-> "TD", stop_id |-> "X", seq |-> 1, arrival |-> T(8, 20, 0), departure |-> T(8, 20, 0)],
           [trip_id |-> "TD", stop_id |-> "S2", seq |-> 2, arrival |-> T(8, 30, 0), departure |-> T(8, 30, 0)],
           [trip_id |-> "TE", stop_id |-> "X", seq |-> 1, arrival |-> T(8, 50, 0), departure |-> T(8, 50, 0)],
           [trip_id |-> "TE", stop_id |-> "S2", seq |-> 2, arrival |-> T(9, 0, 0), departure |-> T(9, 0, 0)],
           [trip_id |-> "TN", stop_id |-> "S1", seq |-> 1, arrival |-> T(24, 30, 0), departure |-> T(24, 30, 0)],
           [trip_id |-> "TN", stop_id |-> "S2", seq |-> 2, arrival |-> T(24, 40, 0), departure |-> T(24, 40, 0)],
           [trip_id |-> "T1", stop_id |-> "S1", seq |-> 1, arrival |-> T(8, 0, 0), departure |-> T(8, 0, 0)],
           [trip_id |-> "T1", stop_id |-> "S2", seq |-> 2, arrival |-> T(8, 20, 0), departure |-> T(8, 20, 0)] >>,
     shapes |-> {}]

\* A feed with a stop that is not a timepoint (its times are empty, as GTFS
\* allows) and a trip that serves two stops within the same minute.
TimepointFeed ==
    [agency_name |-> "Toy Transit",
     stops |-> ToyStops,
     routes |-> << [route_id |-> "R1", short |-> "1", long |-> ""] >>,
     trips |-> << [trip_id |-> "T1", route_id |-> "R1", headsign |-> "", shape_id |-> "", bikes |-> FALSE],
                  [trip_id |-> "T2", route_id |-> "R1", headsign |-> "", shape_id |-> "", bikes |-> FALSE] >>,
     stop_times |->
        << [trip_id |-> "T1", stop_id |-> "S1", seq |-> 1, arrival |-> T(8, 0, 0), departure |-> T(8, 0, 0)],
           [trip_id |-> "T1", stop_id |-> "S2", seq |-> 2, arrival |-> NoTime, departure |-> NoTime],
           [trip_id |-> "T2", stop_id |-> "S1", seq |-> 1, arrival |-> T(9, 0, 0), departure |-> T(9, 0, 0)],
           [trip_id |-> "T2", stop_id |-> "S2", seq |-> 2, arrival |-> T(9, 0, 0), departure |-> T(9, 0, 0)] >>,
     shapes |-> {}]

PlannerFeeds == {ToyFeed, NetFeed, TimepointFeed}

\* The store after one error-free ingestor run of archive f on an empty
\* database.
Ingested(f) ==
    LET stops == processStops({}, f.stops)
        routes == processRoutes({}, f.routes)
        trips == processTrips(<<>>, routes, f.trips)
    IN  [agencies |-> upsertAgency({}, Slug, f.agency_name),
         stops |-> stops,
         routes |-> routes,
         trips |-> trips,
         stop_times |-> processStopTimes(<<>>, trips, stops, f.stop_times)]

\* What FindJourneys is asked.
QueryStops == {"S1", "S2", "X"}
Hour == 3600
QueryTimes == {0, 7 * Hour + 1800, 8 * Hour + 300, 23 * Hour + 3300, 24 * Hour + 8 * Hour}
QueryTransfers == {0, 1}
QueryLimits == {0, 1, 2, 21}

\* limit <= 0 || limit > 20 gives 5
PlannerLimit(limit) == IF limit <= 0 \/ limit > 20 THEN 5 ELSE limit

Day == 24 * Hour
todSeconds(departAfter) == departAfter % Day
today(departAfter) == departAfter - (departAfter % Day)

\* JOIN trips t ON t.id = st.trip_id JOIN routes r ON r.id = t.route_id
TripsOf(st) ==
    {i \in 1..Len(tripsT) :
        /\ tripsT[i].id = st.trip
        /\ \E r \in routesT : r.route_id = tripsT[i].route}

\* JOIN stops s ON s.id = st.stop_id
HasStop(st) == \E x \in stopsT : x.stop_id = st.stop

\* Two stop_times of one trip, the first earlier in the trip's sequence.
SameTripInOrder(a, b) ==
    /\ a.trip # NoTrip
    /\ a.trip = b.trip
    /\ a.stop_sequence < b.stop_sequence

\* A filter on the wall-clock time of the departure instead of its offset.
DepartsAfterWallClock(dep, tod) == dep % Day >= tod

\* st_from.departure_time >= make_interval(secs => $3)
DepartsAfter(dep, tod) == dep >= tod

\* The rows of the direct query before ORDER BY and LIMIT; key is what it
\* orders by.
DirectRows(from, to, tod) ==
    {[i |-> i, j |-> j, t |-> t, key |-> stopTimesT[i].departure_time] :
        <<i, j, t>> \in
          {x \in (1..Len(stopTimesT)) \X (1..Len(stopTimesT)) \X (1..Len(tripsT)) :
              LET a == stopTimesT[x[1]]
                  b == stopTimesT[x[2]]
              IN  /\ SameTripInOrder(a, b)
                  /\ x[3] \in TripsOf(a)
                  /\ HasStop(a) /\ HasStop(b)
                  /\ a.stop = from
                  /\ b.stop = to
                  /\ DepartsAfter(a.departure_time, tod)}}

\* A join that only asks the second leg to leave after the first arrived.
InTransferWindowNoMinimum(arr1, dep2) ==
    /\ dep2 >= arr1
    /\ dep2 <= arr1 + 1800

\* l2.dep2 >= l1.arr1 + interval '2 minutes' AND
\* l2.dep2 <= l1.arr1 + interval '30 minutes'
InTransferWindow(arr1, dep2) ==
    /\ dep2 >= arr1 + 120
    /\ dep2 <= arr1 + 1800

\* The rows of the one-transfer query before ORDER BY and LIMIT.
TransferRows(from, to, tod) ==
    LET N == 1..Len(stopTimesT)
        leg1 == {x \in N \X N : /\ SameTripInOrder(stopTimesT[x[1]], stopTimesT[x[2]])
                                /\ stopTimesT[x[1]].stop = from
                                /\ DepartsAfter(stopTimesT[x[1]].departure_time, tod)}
        leg2 == {x \in N \X N : /\ SameTripInOrder(stopTimesT[x[1]], stopTimesT[x[2]])
                                /\ stopTimesT[x[2]].stop = to}
    IN  {[i1 |-> l1[1], j1 |-> l1[2], i2 |-> l2[1], j2 |-> l2[2], t1 |-> t[1], t2 |-> t[2],
          key |-> stopTimesT[l2[2]].arrival_time - stopTimesT[l1[1]].departure_time] :
            <<l1, l2, t>> \in
              {y \in leg1 \X leg2 \X ((1..Len(tripsT)) \X (1..Len(tripsT))) :
                  LET a1 == stopTimesT[y[1][1]]
                      b1 == stopTimesT[y[1][2]]
                      a2 == stopTimesT[y[2][1]]
                      b2 == stopTimesT[y[2][2]]
                  IN  /\ b1.stop # NULL
                      /\ b1.stop = a2.stop
                      /\ InTransferWindow(b1.arrival_time, a2.departure_time)
                      /\ y[3][1] \in TripsOf(a1)
                      /\ y[3][2] \in TripsOf(a2)
                      /\ HasStop(a1) /\ HasStop(b1) /\ HasStop(b2)
                      /\ tripsT[y[3][1]].route # tripsT[y[3][2]].route}}

\* ORDER BY key LIMIT k: the sequences a database may answer with (rows of
\* equal key come in any order).
RECURSIVE OrderByLimit(_, _)
OrderByLimit(rows, k) ==
    IF k <= 0 \/ rows = {} THEN {<<>>}
    ELSE LET least == {x \in rows : \A y \in rows : x.key <= y.key}
         IN  UNION {{<<x>> \o rest : rest \in OrderByLimit(rows \ {x}, k - 1)} : x \in least}

Leg(t, a, b, day) ==
    [route |-> tripsT[t].route, trip |-> tripsT[t].trip_id,
     from_stop |-> a.stop, to_stop |-> b.stop,
     departure_time |-> day + a.departure_time,
     arrival_time |-> day + b.arrival_time]

DirectJourney(row, day) ==
    LET a == stopTimesT[row.i]
        b == stopTimesT[row.j]
    IN  [legs |-> <<Leg(row.t, a, b, day)>>,
         duration |-> b.arrival_time - a.departure_time,
         departure_time |-> day + a.departure_time,
         arrival_time |-> day + b.arrival_time,
         transfers |-> 0]

TransferJourney(row, day) ==
    LET a1 == stopTimesT[row.i1]
        b1 == stopTimesT[row.j1]
        a2 == stopTimesT[row.i2]
        b2 == stopTimesT[row.j2]
    IN  [legs |-> <<Leg(row.t1, a1, b1, day), Leg(row.t2, a2, b2, day)>>,
         duration |-> b2.arrival_time - a1.departure_time,
         departure_time |-> day + a1.departure_time,
         arrival_time |-> day + b2.arrival_time,
         transfers |-> 1]

\* A planner that runs the one-transfer phase after every direct phase.
TransferPhaseAlways(maxTransfers, found, limit) == TRUE

\* if maxTransfers >= 1 && len(journeys) < limit
TransferPhase(maxTransfers, found, limit) == maxTransfers >= 1 /\ found < limit

\* FindJourneys: the direct phase, then the one-transfer phase when
\* maxTransfers >= 1 and there is room.  An error of the direct query is
\* returned; an error of the transfer query returns the direct journeys.
FindJourneys ==
    /\ jerr = "none"
    /\ \E directOk \in BOOLEAN, transferOk \in BOOLEAN :
        LET from == jquery.from
            to == jquery.to
            maxTransfers == jquery.maxTransfers
            limit == PlannerLimit(jquery.limit)
            tod == todSeconds(jquery.departAfter)
            day == today(jquery.departAfter)
        IN  IF ~directOk
            THEN journeys' = <<>> /\ jerr' = "err"
            ELSE \E direct \in OrderByLimit(DirectRows(from, to, tod), limit) :
                   LET first == [k \in 1..Len(direct) |-> DirectJourney(direct[k], day)]
                   IN  /\ jerr' = "nil"
                       /\ IF TransferPhase(maxTransfers, Len(first), limit)
                          THEN IF ~transferOk
                               THEN journeys' = first
                               ELSE \E second \in OrderByLimit(TransferRows(from, to, tod),
                                                               limit - Len(first)) :
                                      journeys' = first \o
                                         [k \in 1..Len(second) |-> TransferJourney(second[k], day)]
                          ELSE journeys' = first
    /\ UNCHANGED <<jquery, notPlanner>>

NextPlanner == FindJourneys

Queries ==
    [from : QueryStops, to : QueryStops, departAfter : QueryTimes,
     maxTransfers : QueryTransfers, limit : QueryLimits]

InitPlannerSpec ==
    /\ IdleSaga /\ InitBus /\ IdleIngest /\ IdlePoller /\ IdleQueries
    /\ jquery \in Queries
    /\ journeys = <<>>
    /\ jerr = "none"
    /\ \E f \in PlannerFeeds :
         /\ agenciesT = Ingested(f).agencies
         /\ stopsT = Ingested(f).stops
         /\ routesT = Ingested(f).routes
         /\ tripsT = Ingested(f).trips
         /\ stopTimesT = Ingested(f).stop_times

SpecPlanner == InitPlannerSpec /\ [][NextPlanner]_vars

\* C10 (journey monotonicity): in every journey FindJourneys returns, a leg
\* arrives no later than the next leg departs, and a direct journey arrives
\* strictly later than it departs.
JourneyMonotone ==
    \A k \in 1..Len(journeys) :
        LET legs == journeys[k].legs
        IN  /\ \A l \in 1..(Len(legs) - 1) :
                 legs[l].arrival_time <= legs[l + 1].departure_time
            /\ Len(legs) = 1 => legs[1].arrival_time > legs[1].departure_time

\* The one-transfer journeys of the answer.
TransferJourneys == {k \in 1..Len(journeys) : journeys[k].transfers = 1}

\* C11 (transfer window): a one-transfer journey has two legs that meet at
\* one stop, the second leaving between 2 and 30 minutes after the first
\* arrives, on a different route.
TransferWindow ==
    \A k \in TransferJourneys :
        LET legs == journeys[k].legs
        IN  /\ Len(legs) = 2
            /\ legs[2].departure_time - legs[1].arrival_time >= 2 * 60
            /\ legs[2].departure_time - legs[1].arrival_time <= 30 * 60
            /\ legs[1].to_stop = legs[2].from_stop
            /\ legs[1].route # legs[2].route

\* Asked for up to 5 journeys with a transfer over the two-route network,
\* FindJourneys answers with the one connection inside the window (TA then
\* TB at X) although trips leave X 1, 10 and 40 minutes after TA arrives.
TransferWindowWitness ==
    /\ jerr = "nil"
    /\ jquery.maxTransfers = 1
    /\ jquery.limit = 0
    /\ Len(stopTimesT) = Len(NetFeed.stop_times)
    /\ Cardinality(TransferJourneys) = 1
    /\ \E k \in TransferJourneys :
         /\ journeys[k].legs[1].trip = "TA"
         /\ journeys[k].legs[2].trip = "TB"
         /\ journeys[k].legs[1].to_stop = "X"

\* The pairs of stop_times a direct journey from the query's origin to its
\* destination can be made of, whatever their departure.
DirectPairs ==
    {p \in (1..Len(stopTimesT)) \X (1..Len(stopTimesT)) :
        LET a == stopTimesT[p[1]]
            b == stopTimesT[p[2]]
        IN  /\ a.trip # NoTrip /\ a.trip = b.trip
            /\ a.stop_sequence < b.stop_sequence
            /\ a.stop = jquery.from /\ b.stop = jquery.to
            /\ \E i \in 1..Len(tripsT) : tripsT[i].id = a.trip /\ tripsT[i].route # NULL}

\* Seconds since midnight of depart_after, and that midnight.
AskedTimeOfDay == jquery.departAfter % 86400
AskedMidnight == jquery.departAfter - AskedTimeOfDay

DirectJourneys == {k \in 1..Len(journeys) : journeys[k].transfers = 0}

\* C12 (overnight rollover): a stop-time is a candidate exactly when its
\* departure offset is at least the time of day of depart_after, and the
\* journey departs at midnight of that day plus the offset: asked at 23:55,
\* the trip leaving at offset 24:30 is returned, departing 00:30 the next
\* day.
OvernightRollover ==
    jerr = "nil" =>
      /\ \A k \in 1..Len(journeys) :
           journeys[k].departure_time - AskedMidnight >= AskedTimeOfDay
      /\ \A k \in DirectJourneys :
           \E p \in DirectPairs :
              /\ stopTimesT[p[1]].departure_time >= AskedTimeOfDay
              /\ journeys[k].departure_time = AskedMidnight + stopTimesT[p[1]].departure_time
              /\ journeys[k].arrival_time = AskedMidnight + stopTimesT[p[2]].arrival_time
      /\ Cardinality(DirectJourneys) < PlannerLimit(jquery.limit) =>
           \A p \in DirectPairs :
              stopTimesT[p[1]].departure_time >= AskedTimeOfDay =>
                 \E k \in DirectJourneys :
                    journeys[k].departure_time = AskedMidnight + stopTimesT[p[1]].departure_time
      /\ ( /\ AskedTimeOfDay = 23 * 3600 + 55 * 60
           /\ \E p \in DirectPairs :
                stopTimesT[p[1]].departure_time = 24 * 3600 + 30 * 60 )
         => \E k \in DirectJourneys :
               journeys[k].departure_time = AskedMidnight + 86400 + 30 * 60

\* Asked at 23:55 for S1 to S2 over the two-route network, FindJourneys
\* returns the trip of offset 24:30 and not the morning trips.
OvernightRolloverWitness ==
    /\ jerr = "nil"
    /\ jquery.departAfter = 23 * 3600 + 55 * 60
    /\ jquery.from = "S1" /\ jquery.to = "S2"
    /\ Len(journeys) = 1
    /\ journeys[1].legs[1].trip = "TN"
    /\ journeys[1].departure_time = 86400 + 30 * 60
    /\ journeys[1].arrival_time = 86400 + 40 * 60

-----------------------------------------------------------------------------
(* The limit clamps of the query endpoints                                 *)

\* The largest limit a caller gives.
MaxLimitArg == 60
LimitArgs == (-3)..MaxLimitArg

Endpoints == {"nearby", "search", "departures", "planner"}

\* A departures clamp that cuts a limit above the cap down to the cap.
DeparturesLimitToCap(limit) ==
    IF limit <= 0 THEN 10 ELSE IF limit > 50 THEN 50 ELSE limit

\* A nearest-neighbor clamp without the upper bound.
NearbyLimitNoCap(limit) == IF limit <= 0 THEN 50 ELSE limit

\* StopService.FindNearby: limit <= 0 || limit > 50 gives 50
NearbyLimit(limit) == IF limit <= 0 \/ limit > 50 THEN 50 ELSE limit

\* StopService.Search: limit <= 0 || limit > 50 gives 20
SearchLimit(limit) == IF limit <= 0 \/ limit > 50 THEN 20 ELSE limit

\* DepartureService.NextDeparturesAtStop: limit <= 0 || limit > 50 gives 10
DeparturesLimit(limit) == IF limit <= 0 \/ limit > 50 THEN 10 ELSE limit

\* The limit endpoint e goes on with.
ClampOf(e, limit) ==
    IF e = "nearby" THEN NearbyLimit(limit)
    ELSE IF e = "search" THEN SearchLimit(limit)
    ELSE IF e = "departures" THEN DeparturesLimit(limit)
    ELSE PlannerLimit(limit)

\* The endpoint applies its clamp to the caller's limit.
ApplyLimit ==
    /\ limResult = NoLimit
    /\ limResult' = ClampOf(limEndpoint, limArg)
    /\ UNCHANGED <<limEndpoint, limArg, notLimits>>

NextLimits == ApplyLimit

InitLimitsSpec ==
    /\ IdleSaga /\ InitBus /\ EmptyStore /\ IdleIngest /\ IdlePoller /\ IdlePlanner
    /\ limEndpoint \in Endpoints
    /\ limArg \in LimitArgs
    /\ limResult = NoLimit
    /\ svcHasCache = FALSE
    /\ svcCache = {}
    /\ svcReq = NoServiceCall
    /\ svcTrace = <<>>
    /\ svcResp = NoResponse
    /\ pgAgencies = <<>>
    /\ pgReq = NoPageRequest
    /\ pgResp = NoPage
    /\ issued = NotIssued

SpecLimits == InitLimitsSpec /\ [][NextLimits]_vars

\* The default and the cap of each endpoint, as the specification lists
\* them.
DefaultLimit(e) ==
    IF e = "nearby" THEN 50
    ELSE IF e = "search" THEN 20
    ELSE IF e = "departures" THEN 10
    ELSE 5

CapLimit(e) == IF e = "planner" THEN 20 ELSE 50

Clamped == limResult # NoLimit

\* C13 (limit clamping), as stated: a limit <= 0 becomes the endpoint's
\* default and a limit above the endpoint's cap becomes the cap.
LimitClampedToCap ==
    Clamped =>
      /\ limArg <= 0 => limResult = DefaultLimit(limEndpoint)
      /\ limArg > CapLimit(limEndpoint) => limResult = CapLimit(limEndpoint)

\* C13 (limit clamping), amended: a limit <= 0 and a limit above the
\* endpoint's cap both become the endpoint's default; a limit from 1 to the
\* cap is kept.
LimitClampedToDefault ==
    Clamped =>
      /\ limArg <= 0 => limResult = DefaultLimit(limEndpoint)
      /\ limArg > CapLimit(limEndpoint) => limResult = DefaultLimit(limEndpoint)
      /\ (limArg >= 1 /\ limArg <= CapLimit(limEndpoint)) => limResult = limArg

\* The departures endpoint, asked for more than its cap of 50, goes on with
\* its default of 10.
LimitClampedWitness ==
    /\ limEndpoint = "departures"
    /\ limArg > 50
    /\ limResult = 10

-----------------------------------------------------------------------------
(* StopService (with its cache) and DepartureService                      *)

\* Latitudes asked, in units of 0.00001 degree; the longitude and the
\* radius are the same in every call.
Lats == {4326301, 4326304}

\* "%.4f" of a latitude: rounded to 0.0001 degree.
Round4(lat) == (lat + 5) \div 10

ServiceLimits == {-5, 5, 100}
SearchQueries == {"", "abando"}
\* near: nil ("") or a point
Nears == {"", "p1"}
StopUUIDs == {"s1"}

\* The arguments of a call: of a service method, of a repository method, or
\* (as a cache key) the text fmt.Sprintf makes of them.
Call(op, query, lat, near, id, limit) ==
    [op |-> op, query |-> query, lat |-> lat, near |-> near, id |-> id, limit |-> limit]

\* "stops:nearby:%.4f:%.4f:%.0f:%d"
NearbyKey(lat, limit) == Call("nearby", "", Round4(lat), "", "", limit)

\* "stops:search:%s:%d"
SearchKey(query, limit) == Call("search", query, 0, "", "", limit)

\* "stops:id:" + id
IdKey(id) == Call("id", "", 0, "", id, 0)

\* What the repository answers to a call: the stops for those arguments.
RepoAnswer(args) == args

CacheGet(key) == [call |-> "cache.Get", arg |-> key]
CacheSet(key) == [call |-> "cache.Set", arg |-> key]
RepoCall(args) == [call |-> "repo", arg |-> args]

\* The common body of FindNearby, Search and GetByID: try the cache, else
\* ask the repository and store its answer (a failed Set is ignored).
\* getOk: cache.Get returns no error; repoOk, setOk likewise.
Cached(req, key, args, getOk, repoOk, setOk) ==
    LET got == IF svcHasCache THEN <<CacheGet(key)>> ELSE <<>>
        hit == svcHasCache /\ getOk /\ \E e \in svcCache : e.key = key
    IN  /\ svcReq' = req
        /\ IF hit
           THEN /\ svcResp' = [err |-> "nil",
                               val |-> (CHOOSE e \in svcCache : e.key = key).val]
                /\ svcTrace' = got
                /\ svcCache' = svcCache
           ELSE IF ~repoOk
           THEN /\ svcResp' = [err |-> "repo", val |-> NoServiceCall]
                /\ svcTrace' = got \o <<RepoCall(args)>>
                /\ svcCache' = svcCache
           ELSE /\ svcResp' = [err |-> "nil", val |-> RepoAnswer(args)]
                /\ svcTrace' = got \o <<RepoCall(args)>>
                                   \o (IF svcHasCache THEN <<CacheSet(key)>> ELSE <<>>)
                /\ svcCache' = IF svcHasCache /\ setOk
                               THEN {e \in svcCache : e.key # key}
                                    \cup {[key |-> key, val |-> RepoAnswer(args)]}
                               ELSE svcCache

\* StopService.FindNearby(lat, lon, radiusMeters, limit)
FindNearby ==
    /\ \E lat \in Lats, limit \in ServiceLimits, getOk, repoOk, setOk \in BOOLEAN :
         LET lim == NearbyLimit(limit)
         IN  Cached(Call("nearby", "", lat, "", "", limit), NearbyKey(lat, lim),
                    Call("nearby", "", lat, "", "", lim), getOk, repoOk, setOk)
    /\ UNCHANGED <<svcHasCache, notService>>

\* A Search that accepts every query.
QueryInvalidNever(query) == FALSE

\* if query == "" { return nil, fmt.Errorf(...) }
QueryInvalid(query) == query = ""

\* StopService.Search(query, near, limit)
Search ==
    /\ \E query \in SearchQueries, near \in Nears, limit \in ServiceLimits,
          getOk, repoOk, setOk \in BOOLEAN :
         IF QueryInvalid(query)
         THEN /\ svcReq' = Call("search", query, 0, near, "", limit)
              /\ svcResp' = [err |-> "invalid", val |-> NoServiceCall]
              /\ svcTrace' = <<>>
              /\ svcCache' = svcCache
         ELSE LET lim == SearchLimit(limit)
              IN  Cached(Call("search", query, 0, near, "", limit), SearchKey(query, lim),
                         Call("search", query, 0, near, "", lim), getOk, repoOk, setOk)
    /\ UNCHANGED <<svcHasCache, notService>>

\* StopService.GetByID(id)
GetByID ==
    /\ \E id \in StopUUIDs, getOk, repoOk, setOk \in BOOLEAN :
         Cached(Call("id", "", 0, "", id, 0), IdKey(id), Call("id", "", 0, "", id, 0),
                getOk, repoOk, setOk)
    /\ UNCHANGED <<svcHasCache, notService>>

\* DepartureService.NextDeparturesAtStop(stopUUID, limit)
NextDeparturesAtStop ==
    /\ \E id \in StopUUIDs, limit \in ServiceLimits, repoOk \in BOOLEAN :
         LET args == Call("departures", "", 0, "", id, DeparturesLimit(limit))
         IN  /\ svcReq' = Call("departures", "", 0, "", id, limit)
             /\ svcTrace' = <<RepoCall(args)>>
             /\ svcResp' = IF repoOk THEN [err |-> "nil", val |-> RepoAnswer(args)]
                           ELSE [err |-> "repo", val |-> NoServiceCall]
    /\ UNCHANGED <<svcHasCache, svcCache, notService>>

\* A cache entry reaches its time to live (300 s, 600 s for a single stop).
ExpireEntry ==
    /\ \E e \in svcCache : svcCache' = svcCache \ {e}
    /\ UNCHANGED <<svcHasCache, svcReq, svcTrace, svcResp, notService>>

NextService ==
    \/ FindNearby
    \/ Search
    \/ GetByID
    \/ NextDeparturesAtStop
    \/ ExpireEntry

InitServiceSpec ==
    /\ IdleSaga /\ InitBus /\ EmptyStore /\ IdleIngest /\ IdlePoller /\ IdlePlanner
    /\ limEndpoint = "none"
    /\ limArg = 0
    /\ limResult = NoLimit
    /\ svcHasCache \in BOOLEAN
    /\ svcCache = {}
    /\ svcReq = NoServiceCall
    /\ svcTrace = <<>>
    /\ svcResp = NoResponse
    /\ pgAgencies = <<>>
    /\ pgReq = NoPageRequest
    /\ pgResp = NoPage
    /\ issued = NotIssued

SpecService == InitServiceSpec /\ [][NextService]_vars

\* The repository calls of the last service call.
RepoCalls == {i \in 1..Len(svcTrace) : svcTrace[i].call = "repo"}

\* C14: the repository is called with a limit from 1 to 50.
\* NextDeparturesAtStop forwards a limit from 1 to 50 unchanged and forwards
\* 10 for a limit <= 0 or above 50; FindNearby forwards 50 for a limit <= 0
\* or above 50.
ForwardedLimit ==
    \A i \in RepoCalls :
        LET given == svcReq.limit
            sent == svcTrace[i].arg.limit
        IN  /\ svcReq.op \in {"nearby", "search", "departures"} =>
                 (sent >= 1 /\ sent <= 50)
            /\ svcReq.op = "departures" =>
                 sent = (IF given >= 1 /\ given <= 50 THEN given ELSE 10)
            /\ (svcReq.op = "nearby" /\ (given <= 0 \/ given > 50)) => sent = 50

\* Asked for 100 departures, the service asked the repository for 10.
ForwardedLimitWitness ==
    /\ svcReq.op = "departures"
    /\ svcReq.limit = 100
    /\ \E i \in RepoCalls : svcTrace[i].arg.limit = 10


\* The last call was answered from the cache: one cache.Get and nothing
\* else.
ServedFromCache ==
    /\ svcResp.err = "nil"
    /\ Len(svcTrace) = 1
    /\ svcTrace[1].call = "cache.Get"

\* C15: Search with an empty query returns an input-invalid error and
\* consults neither the cache nor the repository; with a non-empty query it
\* passes the query unchanged to the repository unless the cache answers.
SearchQueryChecked ==
    svcReq.op = "search" =>
      /\ svcReq.query = "" => (svcResp.err = "invalid" /\ svcTrace = <<>>)
      /\ svcReq.query # "" =>
           /\ svcResp.err # "invalid"
           /\ ServedFromCache \/ RepoCalls # {}
           /\ \A i \in RepoCalls :
                /\ svcTrace[i].arg.op = "search"
                /\ svcTrace[i].arg.query = svcReq.query
                /\ svcTrace[i].arg.near = svcReq.near

\* An empty query is refused although the cache holds search results.
SearchQueryCheckedWitness ==
    /\ svcReq.op = "search"
    /\ svcReq.query = ""
    /\ svcResp.err = "invalid"
    /\ svcHasCache
    /\ \E e \in svcCache : e.key.op = "search"

\* A query is passed on to the repository after the cache missed.
SearchForwardedWitness ==
    /\ svcReq.op = "search"
    /\ svcReq.query = "abando"
    /\ Len(svcTrace) = 3
    /\ svcTrace[2] = RepoCall(Call("search", "abando", 0, svcReq.near, "", SearchLimit(svcReq.limit)))

-----------------------------------------------------------------------------
\* ListAgenciesHandler: offset/limit pagination over the full agency list.

MaxAgencies == 4

\* The repository's list: agencies 1..n in repository order.
AgencyLists == {[i \in 1..n |-> i] : n \in 0..MaxAgencies}

PageOffsets == (-1)..(MaxAgencies + 1)

PageLimits == {-1, 0, 1, 2, 3, 200, 201}

PageRequests ==
    [hasOffset : BOOLEAN, offset : PageOffsets, hasLimit : BOOLEAN, limit : PageLimits]

\* fiber's c.QueryInt(key, default): the parameter when present, else the
\* default.
QueryInt(has, v, def) == IF has THEN v ELSE def

PageOffset(req) ==
    LET offset == QueryInt(req.hasOffset, req.offset, 0)
    IN  IF offset < 0 THEN 0 ELSE offset

PageLimit(req) ==
    LET limit == QueryInt(req.hasLimit, req.limit, 100)
    IN  IF limit <= 0 \/ limit > 200 THEN 100 ELSE limit

PageEndUnclamped(offset, limit, total) == offset + limit

PageEnd(offset, limit, total) ==
    IF offset + limit > total THEN total ELSE offset + limit

\* Go's s[lo:hi]: panics unless 0 <= lo <= hi <= cap(s).
SliceInBounds(s, lo, hi) == 0 <= lo /\ lo <= hi /\ hi <= Len(s)

Slice(s, lo, hi) == SubSeq(s, lo + 1, hi)

ListAgenciesHandler ==
    /\ pgResp = NoPage
    /\ \E listOk \in BOOLEAN :
        IF ~listOk
        THEN pgResp' = [NoPage EXCEPT !.status = 500]
        ELSE LET offset == PageOffset(pgReq)
                 limit  == PageLimit(pgReq)
                 total  == Len(pgAgencies)
                 end    == PageEnd(offset, limit, total)
             IN  IF offset >= total
                 THEN pgResp' = [status |-> 200, panic |-> FALSE, data |-> <<>>,
                                 offset |-> offset, limit |-> limit, total |-> total]
                 ELSE IF ~SliceInBounds(pgAgencies, offset, end)
                 THEN pgResp' = [NoPage EXCEPT !.status = 500, !.panic = TRUE]
                 ELSE pgResp' = [status |-> 200, panic |-> FALSE,
                                 data |-> Slice(pgAgencies, offset, end),
                                 offset |-> offset, limit |-> limit, total |-> total]
    /\ UNCHANGED <<pgAgencies, pgReq, notPage>>

NextPage == ListAgenciesHandler

InitPageSpec ==
    /\ IdleSaga /\ InitBus /\ EmptyStore /\ IdleIngest /\ IdlePoller /\ IdlePlanner
    /\ limEndpoint = "none"
    /\ limArg = 0
    /\ limResult = NoLimit
    /\ svcHasCache = FALSE
    /\ svcCache = {}
    /\ svcReq = NoServiceCall
    /\ svcTrace = <<>>
    /\ svcResp = NoResponse
    /\ pgAgencies \in AgencyLists
    /\ pgReq \in PageRequests
    /\ pgResp = NoPage
    /\ issued = NotIssued

SpecPage == InitPageSpec /\ [][NextPage]_vars

\* The request the pagination claim is about: offset >= 0 and limit in 1..200.
PageRequestInRange ==
    /\ pgReq.hasOffset /\ pgReq.offset >= 0
    /\ pgReq.hasLimit /\ pgReq.limit \in 1..200

Min(a, b) == IF a <= b THEN a ELSE b

\* The sub-list of positions [lo, hi) in zero-based indices.
Positions(s, lo, hi) == [i \in 1..(IF hi > lo THEN hi - lo ELSE 0) |-> s[lo + i]]

\* C16: for a repository list of T agencies, an offset >= 0 and a limit in
\* 1..200, the response's data is exactly the sub-list of positions
\* [offset, min(offset+limit, T)) in repository order (empty when offset >= T),
\* pagination.total is T and pagination.offset echoes the request; the handler
\* never slices out of bounds, whatever the request.
AgencyPagination ==
    /\ ~pgResp.panic
    /\ (pgResp.status = 200 /\ PageRequestInRange) =>
        /\ pgResp.data = Positions(pgAgencies, pgReq.offset,
                                   Min(pgReq.offset + pgReq.limit, Len(pgAgencies)))
        /\ (pgReq.offset >= Len(pgAgencies) => pgResp.data = <<>>)
        /\ pgResp.total = Len(pgAgencies)
        /\ pgResp.offset = pgReq.offset

\* A page cut at the end of the list: offset 3, limit 3 over four agencies
\* answers with the last agency alone.
AgencyPaginationWitness ==
    /\ pgResp.status = 200
    /\ PageRequestInRange
    /\ pgReq.offset = 3 /\ pgReq.limit = 3
    /\ Len(pgAgencies) = 4
    /\ pgResp.data = <<4>>
    /\ pgResp.total = 4

-----------------------------------------------------------------------------
\* The ingestor's exit code.

\* C17: the ingestor's exit code reflects whether any selected agency
\* completed: it is success only if an agency returned without an
\* agency-level error, and failure when every agency failed.
ExitCodeReflectsAgencies ==
    (ipc = "idle" /\ exitCode # NotExited) =>
        (exitCode = 0 <=> stageErrs \cap {"setup", "agency"} = {})

-----------------------------------------------------------------------------
\* The saga's rollback and the order of its activities.

\* C18 (rollback failure): if DeleteCoupon failed on every attempt, the
\* workflow ends in a rollback-failed state whose error is distinguishable
\* from the error of a successful rollback, and the compensation row is
\* left in place.
RollbackFailureVisible ==
    (Terminal /\ deleteErr = "failed") =>
        /\ wfResult \notin {"ok", "err_push"}
        /\ RowsFor(D1) # {}


\* The activity the workflow runs next, given the one it is at.
WorkflowStep ==
    /\ wfpc = "FindNearestAffiliate" =>
        /\ wfpc' \in {"FindNearestAffiliate", "GetAffiliateName", "done"}
        /\ wfpc' = "done" => wfResult' = "err_find"
    /\ wfpc = "GetAffiliateName" =>
        wfpc' \in {"GetAffiliateName", "GenerateCouponCode"}
    /\ wfpc = "GenerateCouponCode" =>
        /\ wfpc' \in {"GenerateCouponCode", "SendPushNotification", "done"}
        /\ wfpc' = "done" => wfResult' = "err_gen"
    /\ wfpc = "SendPushNotification" =>
        /\ wfpc' \in {"SendPushNotification", "DeleteCoupon", "done"}
        /\ wfpc' = "DeleteCoupon" => pushFailed' = MaximumAttempts
        /\ wfpc' = "done" => wfResult' = "ok"
    /\ wfpc = "DeleteCoupon" =>
        /\ wfpc' \in {"DeleteCoupon", "done"}
        /\ wfpc' = "done" => wfResult' = "err_push"
    /\ wfpc # "done"

\* DeleteCoupon is called only by the workflow at its rollback step, after
\* the push failed for good, and in no execution that ended for
\* FindNearestAffiliate, GenerateCouponCode or with a successful push.
RollbackOnlyAfterPush ==
    /\ deleteCalls' # deleteCalls =>
        /\ wfpc = "DeleteCoupon"
        /\ pushFailed = MaximumAttempts
    /\ wfResult' \in {"ok", "err_find", "err_gen"} => deleteCalls' = <<>>

\* C19 (workflow ordering): the workflow runs FindNearestAffiliate,
\* GetAffiliateName, GenerateCouponCode, SendPushNotification in this order;
\* DeleteCoupon runs only after SendPushNotification failed for good, never
\* after a successful push and never when FindNearestAffiliate or
\* GenerateCouponCode failed; a failure of GetAffiliateName does not stop the
\* workflow.
WorkflowOrdering == [][WorkflowStep /\ RollbackOnlyAfterPush]_vars

\* A rollback reached although GetAffiliateName failed on every attempt.
WorkflowOrderingWitness ==
    /\ Terminal
    /\ affiliateName = ""
    /\ code # NoCode
    /\ pushFailed = MaximumAttempts
    /\ deleteCalls = <<code>>

-----------------------------------------------------------------------------
\* CompensationService.IssueCompensation called on its own.

D2 == "D2"

\* The compensations table before the call: empty, or holding the coupon of
\* another delay event.
EarlierRows ==
    {{}, {[user |-> U1, delay_event |-> D2, affiliate |-> "A1", code |-> 1]}}

\* One call IssueCompensation(U1, {ID: D1}, lat, lon).
IssueCompensationCall ==
    /\ ~issued.called
    /\ \E findOk, createOk, markOk, pushOk \in BOOLEAN, c \in Codes :
         LET res == IssueCompensation(U1, D1, nearbyZero, findOk, c, createOk, markOk, pushOk)
         IN  /\ compensations' = res.comps
             /\ delayMarked' = res.marked
             /\ pushes' = res.sent
             /\ issued' = [called |-> TRUE, findOk |-> findOk, createOk |-> createOk,
                           markOk |-> markOk, pushOk |-> pushOk, c |-> c,
                           before |-> compensations, ok |-> res.ok,
                           code |-> res.code, calls |-> res.calls]
    /\ UNCHANGED <<wfpc, attempt, wfResult, affiliateID, affiliateName, code,
                   nearbyStop, nearbyZero, actNotifier, clean, pushFailed,
                   deleteCalls, deleteErr, notIssue>>

NextIssue == IssueCompensationCall

InitIssueSpec ==
    /\ InitBus /\ EmptyStore /\ IdleIngest /\ IdlePoller /\ IdlePlanner
    /\ wfpc = "FindNearestAffiliate"
    /\ attempt = 1
    /\ wfResult = "running"
    /\ affiliateID = NoAffiliate
    /\ affiliateName = ""
    /\ code = NoCode
    /\ compensations \in EarlierRows
    /\ pushes = <<>>
    /\ delayMarked = FALSE
    /\ nearbyStop = <<>>
    /\ nearbyZero \in NearbyLists
    /\ actNotifier = FALSE
    /\ clean = TRUE
    /\ pushFailed = 0
    /\ deleteCalls = <<>>
    /\ deleteErr = "none"
    /\ limEndpoint = "none"
    /\ limArg = 0
    /\ limResult = NoLimit
    /\ svcHasCache = FALSE
    /\ svcCache = {}
    /\ svcReq = NoServiceCall
    /\ svcTrace = <<>>
    /\ svcResp = NoResponse
    /\ pgAgencies = <<>>
    /\ pgReq = NoPageRequest
    /\ pgResp = NoPage
    /\ issued = NotIssued

SpecIssue == InitIssueSpec /\ [][NextIssue]_vars

\* The call's FindNearby returned an affiliate and its Create succeeded.
CreateSucceeded ==
    /\ issued.findOk /\ nearbyZero # <<>>
    /\ issued.createOk
    /\ ~\E r \in issued.before : r.code = issued.c

Made(call) == \E i \in 1..Len(issued.calls) : issued.calls[i] = call

\* C20 (IssueCompensation is best-effort after Create): once Create
\* succeeded the call returns the created compensation without error and
\* leaves its row in place, whatever MarkCompensated and SendPush return; if
\* FindNearby fails or returns no affiliate, or Create fails, the call
\* returns an error, calls neither MarkCompensated nor SendPush and creates
\* no row.
IssueBestEffort ==
    issued.called =>
        IF CreateSucceeded
        THEN /\ issued.ok
             /\ issued.code = issued.c
             /\ \E r \in compensations :
                    r.code = issued.c /\ r.delay_event = D1 /\ r.user = U1
                    /\ r.affiliate = Head(nearbyZero)
        ELSE /\ ~issued.ok
             /\ ~Made("MarkCompensated")
             /\ ~Made("SendPush")
             /\ compensations = issued.before

\* Create succeeded, MarkCompensated and SendPush both failed, and the call
\* still returned the compensation.
IssueBestEffortWitness ==
    /\ issued.called
    /\ CreateSucceeded
    /\ ~issued.markOk /\ ~issued.pushOk
    /\ issued.ok
    /\ Made("MarkCompensated") /\ Made("SendPush")
    /\ ~delayMarked /\ pushes = <<>>
    /\ Cardinality(compensations) = Cardinality(issued.before) + 1

-----------------------------------------------------------------------------
\* The order of ingestAgency's stages.

\* The stage that follows each stage of ingestAgency.
StageAfter(stage) ==
    CASE stage = "stops" -> "routes"
      [] stage = "routes" -> "trips"
      [] stage = "trips" -> "stop_times"
      [] stage = "stop_times" -> "shapes"
      [] stage = "shapes" -> "idle"

\* One step of an agency's run: from idle either the download, the zip or
\* the agency upsert fails and no table stage runs, or the agency is upserted
\* and the stops stage is next; from a table stage the next stage is next,
\* whether the stage failed or not, and the stage wrote no table of a later
\* stage out of order.
StageStep ==
    /\ ipc = "idle" =>
        \/ /\ ipc' = "stops"
           /\ \E a \in agenciesT' : a.slug = Slug
           /\ stageErrs' = {}
        \/ /\ ipc' = "idle"
           /\ stageErrs' \in {{"setup"}, {"agency"}}
           /\ Store' = Store
    /\ ipc # "idle" =>
        /\ ipc' = StageAfter(ipc)
        /\ stageErrs' \subseteq stageErrs \cup {ipc}
        /\ agenciesT' = agenciesT
        /\ ipc # "stops" => stopsT' = stopsT
        /\ ipc \notin {"routes", "shapes"} => routesT' = routesT
        /\ ipc # "trips" => tripsT' = tripsT
        /\ ipc # "stop_times" => stopTimesT' = stopTimesT

\* C24 (static ingestion order): within one agency the stages run in the
\* order agency upsert, stops, routes, trips, stop-times, shapes, each after
\* the previous one returned; a failed table stage is logged and every later
\* stage is still attempted; a failure of the download, the zip or the agency
\* upsert ends the agency's run before any table stage.
IngestionOrder == [][StageStep]_vars

\* A run whose stops stage failed and whose later stages still ran: the
\* routes of the archive are in the store.
IngestionOrderWitness ==
    /\ ipc = "idle"
    /\ runs = 1
    /\ stageErrs = {"stops"}
    /\ stopsT = {}
    /\ routesT # {}
    /\ Len(tripsT) > 0

-----------------------------------------------------------------------------
\* The affiliate and the coupon code across the saga's steps.

\* C27 (affiliate consistency): in one workflow execution the compensation
\* row created by GenerateCouponCode names the affiliate FindNearestAffiliate
\* returned for the input's stop, and every notification sent for that coupon
\* names that same affiliate.
AffiliateConsistent ==
    \A r \in RowsFor(D1) :
        /\ r.affiliate = affiliateID
        /\ \A i \in 1..Len(pushes) :
               pushes[i].code = r.code => pushes[i].affiliate = NameOf(affiliateID)

\* C28 (no notification for a deleted coupon): if the workflow ended by
\* rolling back, no push notification sent to the user carries the code
\* DeleteCoupon was executed for.
NoPushForDeletedCode ==
    Terminal =>
        \A k \in 1..Len(deleteCalls) :
            \A i \in 1..Len(pushes) : pushes[i].code # deleteCalls[k]

-----------------------------------------------------------------------------
\* What StopService serves from its cache.

\* The arguments StopService hands the repository for a call.
RepoArgsOf(req) ==
    IF req.op = "nearby" THEN [req EXCEPT !.limit = NearbyLimit(req.limit)]
    ELSE IF req.op = "search" THEN [req EXCEPT !.limit = SearchLimit(req.limit)]
    ELSE req

\* C30 (cache faithfulness of StopService): a result served from the cache
\* was produced by the repository for exactly the arguments of the current
\* call; on a hit the repository is not called; on a miss the repository's
\* result is returned and stored; a repository error is returned with
\* nothing written to the cache.
CacheFaithful ==
    /\ ServedFromCache =>
        /\ svcResp.val = RepoAnswer(RepoArgsOf(svcReq))
        /\ RepoCalls = {}
    /\ (svcReq.op \in {"nearby", "search", "id"} /\ RepoCalls # {}) =>
        /\ svcResp.err = "nil" => svcResp.val = RepoAnswer(RepoArgsOf(svcReq))
        /\ svcResp.err = "repo" =>
              \A i \in 1..Len(svcTrace) : svcTrace[i].call # "cache.Set"

-----------------------------------------------------------------------------
\* The two phases of FindJourneys.

\* The positions of the answer holding journeys with n transfers.
WithTransfers(n) == {k \in 1..Len(journeys) : journeys[k].transfers = n}

PlannerTransferErrorSeen ==
    /\ jerr = "nil"
    /\ jquery.maxTransfers = 1
    /\ TransferRows(jquery.from, jquery.to, todSeconds(jquery.departAfter)) # {}
    /\ Len(journeys) = 2
    /\ WithTransfers(1) = {}

-----------------------------------------------------------------------------
\* The poller's subjects against the publisher's streams.

\* The tokens of the subject pollTripUpdates publishes on.
DelaysSubjectTokens == <<"transit", "delays", "detected">>

\* C26 (poller subjects are retained): every subject the poller publishes on
\* matches the subject pattern of one of the streams NewPublisher declares,
\* so the publication is stored by a stream and can reach its durable
\* consumer (delay-processor for the delay alerts).
PollerSubjectsRetained ==
    \A k \in 1..Len(published) :
        published[k].subject = DelaysSubject =>
            /\ StreamOf(DelaysSubjectTokens) # NoStream
            /\ ConsumerOf(DelaysSubjectTokens) = "delay-processor"

-----------------------------------------------------------------------------
(* Real-time poller: pollVehiclePositions                                  *)

MaxEntities == 2

EntityNames == <<"e1", "e2", "e3", "e4">>

\* The vehicle descriptors of an entity: <<present, id, label>>.
VehicleDescriptors ==
    {<<TRUE, "v1", "L1">>, <<TRUE, "", "L1">>, <<TRUE, "", "">>, <<FALSE, "", "">>}

\* What happens to the entity's row and JSON copy: the INSERT fails with a
\* null-value violation, fails otherwise, or succeeds; a position whose
\* bearing or speed is not a finite number is stored but cannot be
\* marshalled.
EntityFates ==
    {[insert |-> "null_fk", finite |-> TRUE], [insert |-> "err", finite |-> TRUE],
     [insert |-> "ok", finite |-> TRUE], [insert |-> "ok", finite |-> FALSE]}

\* The entities of a vehicle-positions feed at position i: another kind of
\* entity, a vehicle without position, or a vehicle with a position.
VehicleEntities(i) ==
    {[id |-> EntityNames[i], has_vp |-> FALSE, has_pos |-> FALSE, has_vehicle |-> FALSE,
      vehicle_id |-> "", label |-> "", insert |-> "ok", finite |-> TRUE],
     [id |-> EntityNames[i], has_vp |-> TRUE, has_pos |-> FALSE, has_vehicle |-> FALSE,
      vehicle_id |-> "", label |-> "", insert |-> "ok", finite |-> TRUE]}
    \cup
    {[id |-> EntityNames[i], has_vp |-> TRUE, has_pos |-> TRUE, has_vehicle |-> d[1],
      vehicle_id |-> d[2], label |-> d[3], insert |-> f.insert, finite |-> f.finite] :
        d \in VehicleDescriptors, f \in EntityFates}

VehicleFeeds ==
    UNION {{q \in [1..n -> UNION {VehicleEntities(i) : i \in 1..n}] :
               \A i \in 1..n : q[i] \in VehicleEntities(i)} : n \in 0..MaxEntities}

\* A poller that names the vehicle by the entity id first.
VehicleIDEntityFirst(e) == e.id

\* vehicleID: vehicle.GetId(), else vehicle.GetLabel(), else entity.GetId()
VehicleID(e) ==
    LET fromVehicle == IF e.has_vehicle
                       THEN IF e.vehicle_id = "" THEN e.label ELSE e.vehicle_id
                       ELSE ""
    IN  IF fromVehicle = "" THEN e.id ELSE fromVehicle

\* fmt.Sprintf("transit.vehicle.%s.%s", agency.Slug, vehicleID), in tokens
VehicleSubject(vehicleID) == <<"transit", "vehicle", Slug, vehicleID>>

\* The loop over the feed's entities: `acc` is what the entities before left.
RECURSIVE VehicleLoop(_, _)
VehicleLoop(entities, acc) ==
    IF entities = <<>> THEN acc
    ELSE LET e == Head(entities)
             vehicleID == VehicleID(e)
             next ==
                IF ~e.has_vp \/ ~e.has_pos THEN acc
                ELSE IF e.insert = "null_fk" THEN acc
                ELSE IF e.insert = "err"
                THEN [acc EXCEPT !.log = Append(@, vehicleID)]
                ELSE [acc EXCEPT
                        !.inserted = Append(@, vehicleID),
                        !.published =
                            IF e.finite
                            THEN Append(@, [subject |-> VehicleSubject(vehicleID),
                                            vehicle_id |-> vehicleID,
                                            agency |-> Slug])
                            ELSE @]
         IN  VehicleLoop(Tail(entities), next)

\* pollVehiclePositions: fetchFeed, then the loop; a fetch error is returned
\* before anything is inserted or published.
PollVehiclePositions ==
    /\ vpPolled = "none"
    /\ \E fetchOk \in BOOLEAN :
         IF fetchOk
         THEN LET res == VehicleLoop(vpFeed, [inserted |-> <<>>, published |-> <<>>,
                                              log |-> <<>>])
              IN  /\ vpInserted' = res.inserted
                  /\ vpPublished' = res.published
                  /\ vpLog' = res.log
                  /\ vpPolled' = "ok"
         ELSE /\ vpPolled' = "err"
              /\ UNCHANGED <<vpInserted, vpPublished, vpLog>>
    /\ UNCHANGED <<vpFeed, notVehicles>>

NextVehicles == PollVehiclePositions

InitVehiclesSpec ==
    /\ IdleSaga /\ InitBus /\ EmptyStore /\ IdleIngest /\ IdlePlanner /\ IdleQueries
    /\ tuFeed = <<>>
    /\ tuPolled = "none"
    /\ published = <<>>
    /\ vpFeed \in VehicleFeeds
    /\ vpPolled = "none"
    /\ vpInserted = <<>>
    /\ vpPublished = <<>>
    /\ vpLog = <<>>
    /\ mainpc = "start"
    /\ cycles = 0
    /\ tickPending = FALSE
    /\ quitPending = FALSE
    /\ agencyIDs = {}
    /\ gpc = <<>>
    /\ sem = 0
    /\ fetchLog = <<>>
    /\ prevFailed = {}

SpecVehicles == InitVehiclesSpec /\ [][NextVehicles]_vars

\* The first non-empty of vehicle.id, vehicle.label and the entity id.
FirstNonEmpty(e) ==
    IF e.vehicle_id # "" THEN e.vehicle_id
    ELSE IF e.label # "" THEN e.label
    ELSE e.id

\* The entities pollVehiclePositions transforms into a domain.VehiclePosition
\* and a JSON copy of it: they carry a position, their row was inserted and
\* their copy could be marshalled.
Transformed ==
    {i \in 1..Len(vpFeed) :
        /\ vpFeed[i].has_vp /\ vpFeed[i].has_pos
        /\ vpFeed[i].insert = "ok" /\ vpFeed[i].finite}

\* The entities whose INSERT failed otherwise than with a null-value
\* violation.
InsertFailed ==
    {i \in 1..Len(vpFeed) :
        vpFeed[i].has_vp /\ vpFeed[i].has_pos /\ vpFeed[i].insert = "err"}

VehicleNames == {FirstNonEmpty(vpFeed[i]) : i \in 1..Len(vpFeed)}

-----------------------------------------------------------------------------
(* Real-time poller: main's polling loop and pollAll                        *)

\* The agencies of the manifest that have GTFS-RT feeds.
NumAgencies == 2
RtAgencies == 1..NumAgencies

\* cap(sem), 8 in pollAll, scaled with the number of agencies so that
\* agencies wait for a slot.
SemSlots == 1

\* The calls of pollAll the model follows.
MaxCycles == 2

FeedKinds == <<"vp", "tu", "al">>

\* The feed URLs of the manifest that are not empty: the first agency serves
\* the three feeds, the others trip updates only or positions and alerts.
FeedsOf(a) ==
    IF a = 1 THEN {"vp", "tu", "al"}
    ELSE IF a % 2 = 0 THEN {"tu"}
    ELSE {"vp", "al"}

\* The agency goroutines between sem <- struct{}{} and their return.
Polling == {a \in DOMAIN gpc : gpc[a] \in {"vp", "tu", "al"}}

\* A semaphore that always has room.
SlotFreeAlways == TRUE

\* sem <- struct{}{} does not block
SlotFree == sem < SemSlots

\* pollAll that returns without waiting for its goroutines.
AllDoneNoWait == TRUE

\* wg.Wait() returns
AllDone == \A a \in DOMAIN gpc : gpc[a] \in {"none", "done"}

\* A goroutine that returns at the first feed that fails.
AfterFeedAborts(ok, next) == IF ok THEN next ELSE "done"

\* if err := poll...(...); err != nil { log.Printf(...) }: the goroutine
\* goes on with the next feed.
AfterFeed(ok, next) == next

\* pollAll up to wg.Wait(): one goroutine for each agency with a preloaded
\* UUID.
BeginPollAll ==
    /\ mainpc' = "polling"
    /\ cycles' = cycles + 1
    /\ gpc' = [a \in RtAgencies |-> IF a \in agencyIDs THEN "queued" ELSE "none"]
    /\ prevFailed' = {p \in (DOMAIN fetchLog) \X {"vp", "tu", "al"} :
                         \E k \in 1..Len(fetchLog[p[1]]) :
                             /\ fetchLog[p[1]][k].feed = p[2]
                             /\ ~fetchLog[p[1]][k].ok}
    /\ fetchLog' = [a \in RtAgencies |-> <<>>]
    /\ UNCHANGED <<agencyIDs, sem>>


\* pollAll(...) called once before the loop.
RunOnce ==
    /\ mainpc = "start"
    /\ BeginPollAll
    /\ UNCHANGED <<tickPending, quitPending, notLoop>>


\* case <-ticker.C: pollAll(...)
TickCycle ==
    /\ mainpc = "select"
    /\ tickPending
    /\ cycles < MaxCycles
    /\ tickPending' = FALSE
    /\ BeginPollAll
    /\ UNCHANGED <<quitPending, notLoop>>

\* sem <- struct{}{}: the goroutine takes a slot and starts with the first
\* feed.
Acquire(a) ==
    /\ mainpc = "polling"
    /\ gpc[a] = "queued"
    /\ SlotFree
    /\ sem' = sem + 1
    /\ gpc' = [gpc EXCEPT ![a] = "vp"]
    /\ UNCHANGED <<mainpc, cycles, tickPending, quitPending, agencyIDs, fetchLog,
                   prevFailed, notLoop>>

\* One feed of the goroutine of agency a: skipped when its URL is empty,
\* else fetched; after the last feed the goroutine returns, releasing its
\* slot (defer func() { <-sem }()) and the wait group.
PollFeed(a, kind, next) ==
    /\ \E ok \in BOOLEAN :
         /\ fetchLog' = IF kind \in FeedsOf(a)
                        THEN [fetchLog EXCEPT ![a] = Append(@, [feed |-> kind, ok |-> ok])]
                        ELSE fetchLog
         /\ LET to == IF kind \in FeedsOf(a) THEN AfterFeed(ok, next) ELSE next
            IN  /\ gpc' = [gpc EXCEPT ![a] = to]
                /\ sem' = IF to = "done" THEN sem - 1 ELSE sem
    /\ UNCHANGED <<mainpc, cycles, tickPending, quitPending, agencyIDs,
                   prevFailed, notLoop>>

GoVehiclePositions(a) ==
    /\ gpc[a] = "vp"
    /\ PollFeed(a, "vp", "tu")

GoTripUpdates(a) ==
    /\ gpc[a] = "tu"
    /\ PollFeed(a, "tu", "al")

GoAlerts(a) ==
    /\ gpc[a] = "al"
    /\ PollFeed(a, "al", "done")

\* wg.Wait() returns and with it pollAll: main is at its select.
PollAllReturns ==
    /\ mainpc = "polling"
    /\ AllDone
    /\ mainpc' = "select"
    /\ UNCHANGED <<cycles, tickPending, quitPending, agencyIDs, gpc, sem,
                   fetchLog, prevFailed, notLoop>>

\* case sig := <-quit: cancel(), time.Sleep(2 * time.Second), return
Quit ==
    /\ mainpc = "select"
    /\ quitPending
    /\ quitPending' = FALSE
    /\ mainpc' = "exited"
    /\ UNCHANGED <<cycles, tickPending, agencyIDs, gpc, sem, fetchLog,
                   prevFailed, notLoop>>

\* The ticker fires: ticker.C holds one tick, a tick that finds it full is
\* dropped.
Tick ==
    /\ mainpc # "exited"
    /\ ~tickPending
    /\ tickPending' = TRUE
    /\ UNCHANGED <<mainpc, cycles, quitPending, agencyIDs, gpc, sem, fetchLog,
                   prevFailed, notLoop>>

\* SIGINT or SIGTERM arrives: quit holds one signal.
Interrupt ==
    /\ mainpc # "exited"
    /\ ~quitPending
    /\ quitPending' = TRUE
    /\ UNCHANGED <<mainpc, cycles, tickPending, agencyIDs, gpc, sem, fetchLog,
                   prevFailed, notLoop>>

NextPoll ==
    \/ RunOnce
    \/ TickCycle
    \/ \E a \in RtAgencies : Acquire(a)
    \/ \E a \in RtAgencies : GoVehiclePositions(a)
    \/ \E a \in RtAgencies : GoTripUpdates(a)
    \/ \E a \in RtAgencies : GoAlerts(a)
    \/ PollAllReturns
    \/ Quit
    \/ Tick
    \/ Interrupt

\* main up to the loop: the UUID of each agency is preloaded, an agency not
\* found in the database is left out.
InitPollSpec ==
    /\ IdleSaga /\ InitBus /\ EmptyStore /\ IdleIngest /\ IdlePlanner /\ IdleQueries
    /\ tuFeed = <<>>
    /\ tuPolled = "none"
    /\ published = <<>>
    /\ vpFeed = <<>>
    /\ vpPolled = "none"
    /\ vpInserted = <<>>
    /\ vpPublished = <<>>
    /\ vpLog = <<>>
    /\ mainpc = "start"
    /\ cycles = 0
    /\ tickPending = FALSE
    /\ quitPending = FALSE
    /\ agencyIDs \in SUBSET RtAgencies
    /\ gpc = [a \in RtAgencies |-> "none"]
    /\ sem = 0
    /\ fetchLog = [a \in RtAgencies |-> <<>>]
    /\ prevFailed = {}

SpecPoll == InitPollSpec /\ [][NextPoll]_vars


\* A cycle of the poller has ended.
CycleOver == mainpc \in {"select", "exited"} /\ cycles >= 1

\* The feeds of the log of agency a, in the order they were fetched.
Fetched(a) == [k \in 1..Len(fetchLog[a]) |-> fetchLog[a][k].feed]

\* The feeds the manifest gives agency a, of those in `kinds`, in pollAll's
\* order.
Configured(a, kinds) ==
    SelectSeq(FeedKinds, LAMBDA f : f \in FeedsOf(a) /\ f \in kinds)

\* C21 (poller feed isolation): a feed that fails to fetch or to decode is
\* the only thing skipped: at the end of a cycle every agency polled has had
\* each of its feeds fetched, whatever failed before in that agency or in
\* another one, and a feed that failed in the cycle before has been fetched
\* again.
FeedIsolation ==
    CycleOver =>
        /\ \A a \in agencyIDs : Fetched(a) = Configured(a, {"vp", "tu", "al"})
        /\ \A p \in prevFailed : \E k \in 1..Len(fetchLog[p[1]]) :
               fetchLog[p[1]][k].feed = p[2]

\* The second cycle has ended; in the first one the positions of agency 1
\* failed, in this one its trip updates failed, and around the failure its
\* positions and alerts, and the feed of agency 2, were fetched.
FeedIsolationWitness ==
    /\ mainpc = "select"
    /\ cycles = 2
    /\ agencyIDs = RtAgencies
    /\ <<1, "vp">> \in prevFailed
    /\ fetchLog[1] = <<[feed |-> "vp", ok |-> TRUE], [feed |-> "tu", ok |-> FALSE],
                       [feed |-> "al", ok |-> TRUE]>>
    /\ fetchLog[2] = <<[feed |-> "tu", ok |-> TRUE]>>

\* The feeds a goroutine has behind it at each position.
Behind(pc) ==
    CASE pc = "tu" -> {"vp"}
      [] pc = "al" -> {"vp", "tu"}
      [] pc = "done" -> {"vp", "tu", "al"}
      [] OTHER -> {}

\* C22 (poller bounded parallelism): at most cap(sem) agencies are being
\* polled at the same time, every poll runs while its goroutine holds a slot
\* and the slot is released when the agency finishes; an agency's feeds are
\* requested one after the other in the order vehicle positions, trip
\* updates, alerts.
BoundedParallelism ==
    /\ sem <= SemSlots
    /\ Cardinality(Polling) = sem
    /\ \A a \in DOMAIN gpc : Fetched(a) = Configured(a, Behind(gpc[a]))

\* Every slot is taken and an agency waits for one.
BoundedParallelismWitness ==
    /\ mainpc = "polling"
    /\ sem = SemSlots
    /\ \E a \in RtAgencies : gpc[a] = "queued"
    /\ \E a \in RtAgencies : gpc[a] = "al" /\ Len(fetchLog[a]) = 2

\* No agency goroutine is running.
Quiet == \A a \in DOMAIN gpc : gpc[a] \in {"none", "done"}

\* One step of the poller as the polling loop allows it: goroutines run only
\* inside pollAll; a cycle starts at startup or on a tick taken at the
\* select, with no goroutine of the cycle before still running; a tick or a
\* signal is taken at the select only; the process exits on a signal with
\* no poll running.
LoopStep ==
    /\ mainpc' # "polling" => Quiet'
    /\ cycles' # cycles =>
        /\ cycles' = cycles + 1
        /\ mainpc' = "polling"
        /\ Quiet
        /\ IF cycles = 0 THEN mainpc = "start" /\ tickPending' = tickPending
           ELSE mainpc = "select" /\ tickPending /\ ~tickPending'
    /\ (tickPending /\ ~tickPending') => mainpc = "select"
    /\ (quitPending /\ ~quitPending') => mainpc = "select"
    /\ (mainpc' = "exited" /\ mainpc # "exited") =>
        mainpc = "select" /\ quitPending /\ Quiet

\* C29 (poll cycles never overlap): the poller runs one cycle at startup and
\* then one per tick; pollAll returns only after every goroutine it started
\* has finished, so at most one cycle is in flight; a tick or an interrupt
\* that arrives during a cycle is handled after the cycle; the process never
\* exits on a signal while a poll of the cycle is running.
CyclesNeverOverlap == [][LoopStep]_vars

\* A tick and a signal wait while the polls of the second cycle run.
CyclesNeverOverlapWitness ==
    /\ mainpc = "polling"
    /\ cycles = 2
    /\ tickPending /\ quitPending
    /\ Polling # {}

=============================================================================
